---- MODULE Spec2Model ----
(***************************************************************************)
(* Model of the exception-reporting core of gaussian-splatting-cuda:       *)
(*   gs::core::ExceptionHandler        include/core/exception_handler.hpp  *)
(*   gs::visualizer::ExceptionVisualizer                                   *)
(*        src/visualizer/exception_visualizer.hpp (members, clear, setters)*)
(*        src/exception_handler.cpp     (on_exception, render, ...)        *)
(* A float of the program (lifetime, dt) is the integer number of 2^-27    *)
(* seconds it stands for; every float32 between 2^-3 and 8 seconds or so   *)
(* is such a number, and FloatSub rounds as float32 subtraction does.      *)
(* In SpecViz, SpecFloat, SpecHandler and SpecScenario every handler is    *)
(* one atomic step; SpecOverlayThreads and SpecObserverThreads interleave  *)
(* threads at the lock operations and shared-memory accesses of the code.  *)
(***************************************************************************)
EXTENDS Integers, Sequences, FiniteSets, TLC

VARIABLES
    observers_,          \* ExceptionHandler::observers_ (callbacks, by name)
    throw_on_critical_,  \* ExceptionHandler::throw_on_critical_
    viz,                 \* the ExceptionVisualizer object (record of its members)
    nextId,              \* history: number of ExceptionEvents constructed so far
    registered,          \* history: add_observer arguments since the last remove_observers
    batch,               \* history: ids enqueued since the queue was last reset to empty
    lastCritical,        \* history: id of the latest Critical event the visualizer received
    last,                \* history: what the latest step did
    mutex_,              \* ExceptionVisualizer::mutex_: "free" or the thread holding it
    observer_mutex_,     \* ExceptionHandler::observer_mutex_: "free" or its holder
    pc,                  \* per thread: where it is inside the call it is running
    arg,                 \* per thread: locals of that call (event, click, loop index, ...)
    busy,                \* per thread: its access to modal_error_ in progress, if any
    raced,               \* per thread: a conflicting access overlapped that access
    delivered,           \* history: events that entered on_exception, per severity
    instance_            \* the function-local static of ExceptionHandler::get()

tvars == <<mutex_, observer_mutex_, pc, arg, busy, raced, delivered, instance_>>

vars == <<observers_, throw_on_critical_, viz, nextId, registered, batch, lastCritical, last,
          mutex_, observer_mutex_, pc, arg, busy, raced, delivered, instance_>>

(*************************** bounds ****************************************)
MaxEvents == 3          \* events published in one behaviour of SpecViz
MaxCalls == 2           \* events published in one behaviour of SpecHandler
MaxK == 2               \* set_max_toasts arguments are 0..MaxK
MaxObservers == 2       \* length of observers_

(*************************** program constants *****************************)
DefaultMaxToasts == 5

(* One second, and 0.1f: the float32 nearest to 0.1 is 13421773 * 2^-27.   *)
Second == 2^27
TenthF == (Second + 5) \div 10
DefaultToastLifetime == 4 * Second

(* 0.2f, 0.3f and 0.5f: the float32 nearest to 0.2 is 13421773 * 2^-26 and *)
(* the one nearest to 0.3 is 10066330 * 2^-25.                             *)
FifthF == 2 * ((Second + 5) \div 10)
ThreeTenthsF == 4 * ((3 * Second + 20) \div 40)
HalfF == Second \div 2

Severities == {"Trace", "Debug", "Info", "Warn", "Error", "Critical"}
Messages == {"msgA"}
Payloads == {"payloadA"}         \* textual failure payloads of a std::expected
OtherObservers == {"O1"}

(* source_location values: the places of the program that call an entry    *)
(* point.  HereSite is the one call site of the specifications that do not *)
(* vary it.                                                                *)
HereSite == "gs_viewer.cpp:100"
CallSites == {HereSite, "trainer.cpp:200"}
DtSet == {Second, 2 * Second}    \* render's dt in SpecViz: 1.0f, 2.0f
FrameDts == {TenthF, Second}     \* render's dt in SpecFloat: 0.1f, 1.0f
LifetimeSet == {Second}             \* set_toast_lifetime arguments: 1.0f

(* Configured lifetimes around the two fade windows (0.3 s and 0.5 s):     *)
(* 0.4f, shorter than the fade-out window; 0.6f, shorter than the two      *)
(* windows together; 1.0f, longer than both.                               *)
FadeLifetimes == {4 * TenthF, 2 * ThreeTenthsF, Second}
FadeDts == {TenthF, FifthF}

(* A positive frame time of 2^-26 s, below half the float32 spacing of     *)
(* every lifetime of 1 s and more.                                         *)
TinyDt == 2
ExpiryDts == {2 * Second, TinyDt}    \* render's dt in SpecExpiry
MaxFaded == 1        \* notifications followed through their fade
VizSeverities == {"Warn", "Error", "Critical"}   \* report severities in SpecViz

(* Dynamic types a wrapped callable may throw, with the classes each one   *)
(* derives from (the type itself included); "int" stands for an object     *)
(* that is not a std::exception.                                           *)
FailureTypes == {"filesystem_error", "system_error", "runtime_error", "range_error",
                 "logic_error", "bad_alloc", "exception", "int"}

Bases(t) ==
    CASE t = "filesystem_error" -> {"filesystem_error", "system_error", "runtime_error", "exception"}
      [] t = "system_error"     -> {"system_error", "runtime_error", "exception"}
      [] t = "runtime_error"    -> {"runtime_error", "exception"}
      [] t = "range_error"      -> {"range_error", "runtime_error", "exception"}
      [] t = "logic_error"      -> {"logic_error", "exception"}
      [] t = "bad_alloc"        -> {"bad_alloc", "exception"}
      [] t = "exception"        -> {"exception"}
      [] OTHER                  -> {t}

(*************************** ExceptionVisualizer ***************************)

severity_to_color(sev) ==
    CASE sev = "Critical" -> <<255, 50, 50>>
      [] sev = "Error"    -> <<220, 80, 80>>
      [] sev = "Warn"     -> <<220, 180, 50>>
      [] sev = "Info"     -> <<100, 180, 220>>
      [] sev = "Debug"    -> <<150, 150, 220>>
      [] sev = "Trace"    -> <<180, 180, 180>>
      [] OTHER            -> <<200, 200, 200>>

(* Variants of the switch: Critical events are not counted; Warn events    *)
(* are counted as errors.                                                  *)
UpdateStatistics_skipsCritical(v, sev) ==
    IF sev = "Error" THEN [v EXCEPT !.error_count_ = @ + 1]
    ELSE IF sev = "Warn" THEN [v EXCEPT !.warning_count_ = @ + 1]
    ELSE IF sev \in {"Info", "Debug", "Trace"} THEN [v EXCEPT !.info_count_ = @ + 1]
    ELSE v

UpdateStatistics_warnAsError(v, sev) ==
    IF sev \in {"Error", "Critical", "Warn"} THEN [v EXCEPT !.error_count_ = @ + 1]
    ELSE IF sev \in {"Info", "Debug", "Trace"} THEN [v EXCEPT !.info_count_ = @ + 1]
    ELSE v

(* The switch at the head of on_exception.                                 *)
UpdateStatistics(v, sev) ==
    IF sev \in {"Error", "Critical"} THEN [v EXCEPT !.error_count_ = @ + 1]
    ELSE IF sev = "Warn" THEN [v EXCEPT !.warning_count_ = @ + 1]
    ELSE IF sev \in {"Info", "Debug", "Trace"} THEN [v EXCEPT !.info_count_ = @ + 1]
    ELSE v

(* Variants of the eviction loop: one pop_front per call; pop_back.        *)
LimitToastCount_once(q, max) == IF Len(q) > max THEN Tail(q) ELSE q

LimitToastCount_newest(q, max) == SubSeq(q, 1, IF Len(q) > max THEN max ELSE Len(q))

(* while (toasts_.size() > max_toasts_) toasts_.pop_front();               *)
RECURSIVE LimitToastCount(_, _)
LimitToastCount(q, max) ==
    IF Len(q) > max THEN LimitToastCount(Tail(q), max) ELSE q

(* The Toast pushed for an event; elapsed is history (render time seen).   *)
(* location is the "file:line" text made from the event's source_location. *)
MakeToast(event, lifetime) ==
    [id |-> event.id, message |-> event.message, location |-> event.location,
     type |-> event.type_name,
     lifetime |-> lifetime, initial_lifetime |-> lifetime,
     color |-> severity_to_color(event.severity), severity |-> event.severity,
     elapsed |-> 0]

(* Variants of on_exception: criticals accumulate; no return after the     *)
(* critical branch.                                                        *)
on_exception_queues(v, event) ==
    LET counted == UpdateStatistics(v, event.severity) IN
    IF event.severity = "Critical"
    THEN [counted EXCEPT !.modal_error_ = @ \cup {event}, !.popup_open = TRUE]
    ELSE [counted EXCEPT !.toasts_ =
              LimitToastCount(Append(@, MakeToast(event, v.toast_lifetime_)), v.max_toasts_)]

on_exception_fallthrough(v, event) ==
    LET counted == UpdateStatistics(v, event.severity)
        m == IF event.severity = "Critical"
             THEN [counted EXCEPT !.modal_error_ = {event}, !.popup_open = TRUE]
             ELSE counted
    IN [m EXCEPT !.toasts_ =
            LimitToastCount(Append(@, MakeToast(event, v.toast_lifetime_)), v.max_toasts_)]

(* on_exception: the statistics switch, then the modal path (the slot is   *)
(* overwritten, ImGui::OpenPopup marks the "##CriticalError" popup open,   *)
(* return) or the toast path (push_back, eviction loop).  popup_open is    *)
(* ImGui's open flag of that popup; CloseCurrentPopup clears it.           *)
on_exception(v, event) ==
    LET counted == UpdateStatistics(v, event.severity) IN
    IF event.severity = "Critical"
    THEN [counted EXCEPT !.modal_error_ = {event}, !.popup_open = TRUE]
    ELSE [counted EXCEPT !.toasts_ =
              LimitToastCount(Append(@, MakeToast(event, v.toast_lifetime_)), v.max_toasts_)]

(* float32 arithmetic on multiples of 2^-27: a value below 2^24 units is   *)
(* a float32 as it stands; a larger one keeps 24 significant bits, rounded *)
(* to nearest, ties to the even significand.                               *)
RECURSIVE Ulp(_)
Ulp(a) == IF a < 2^24 THEN 1 ELSE 2 * Ulp(a \div 2)

RoundToFloat(n) ==
    LET a == IF n < 0 THEN -n ELSE n
        q == Ulp(a)
        lo == (a \div q) * q
        r == a - lo
        m == IF 2 * r < q THEN lo
             ELSE IF 2 * r > q THEN lo + q
             ELSE IF (lo \div q) % 2 = 0 THEN lo ELSE lo + q
    IN IF n < 0 THEN -m ELSE m

(* it->lifetime -= dt on floats.                                           *)
FloatSub(a, b) == RoundToFloat(a - b)

(* <<q, r>> with a * 2^n = q * b + r and 0 <= r < b, by long division.    *)
RECURSIVE LongDiv(_, _, _)
LongDiv(a, b, n) ==
    IF n = 0 THEN <<a \div b, a % b>>
    ELSE LET p == LongDiv(a, b, n - 1)
         IN <<2 * p[1] + (2 * p[2]) \div b, (2 * p[2]) % b>>

(* a / b on non-negative floats: the quotient rounded to nearest, ties to  *)
(* even.  A quotient below 2^-3 is kept to 2^-27, which is coarser than    *)
(* float32.                                                                *)
FloatDiv(a, b) ==
    LET d == LongDiv(a, b, 27)
        q == d[1]
        r == d[2]
        u == Ulp(q)
        lo == (q \div u) * u
        m == q - lo
        up == IF u = 1 THEN 2 * r > b \/ (2 * r = b /\ q % 2 = 1)
              ELSE \/ 2 * m > u
                   \/ (2 * m = u /\ (r > 0 \/ (lo \div u) % 2 = 1))
    IN IF up THEN lo + u ELSE lo

(* Variant of the fade: every notification is drawn opaque.                *)
fade_alpha_opaque(t) == Second

(* The alpha render_toasts draws a surviving notification with, computed   *)
(* from its lifetime after the decrement; Second stands for 1.0f.          *)
fade_alpha(t) ==
    IF t.lifetime < HalfF THEN FloatDiv(t.lifetime, HalfF)
    ELSE IF t.lifetime > FloatSub(t.initial_lifetime, ThreeTenthsF)
    THEN FloatDiv(FloatSub(t.initial_lifetime, t.lifetime), ThreeTenthsF)
    ELSE Second

(* Variant of the render loop: every toast ages, but only expired toasts   *)
(* at the front of the queue are erased.                                   *)
RECURSIVE AgeAll(_, _)
AgeAll(q, dt) ==
    IF q = <<>> THEN <<>>
    ELSE <<[Head(q) EXCEPT !.lifetime = FloatSub(@, dt), !.elapsed = @ + dt]>>
         \o AgeAll(Tail(q), dt)

RECURSIVE DropExpiredHead(_)
DropExpiredHead(q) ==
    IF q # <<>> /\ Head(q).lifetime <= 0 THEN DropExpiredHead(Tail(q)) ELSE q

render_toasts_headOnly(q, dt) == DropExpiredHead(AgeAll(q, dt))

(* Variant of the render loop: the toasts do not age.                      *)
render_toasts_noAging(q, dt) == q

(* Variant of the erase condition: lifetime < 0.                           *)
Expired_strict(lifetime) == lifetime < 0

(* The erase condition of the render loop, after it->lifetime -= dt.       *)
Expired(lifetime) == lifetime <= 0

(* The loop of render_toasts: every toast ages by dt, expired ones are     *)
(* erased, the rest keep their order.                                      *)
RECURSIVE render_toasts(_, _)
render_toasts(q, dt) ==
    IF q = <<>> THEN <<>>
    ELSE LET t == [Head(q) EXCEPT !.lifetime = FloatSub(@, dt), !.elapsed = @ + dt]
             rest == render_toasts(Tail(q), dt)
         IN IF Expired(t.lifetime) THEN rest ELSE <<t>> \o rest

(* The viewport (Pos = (0, 0)) and the layout constants of the toasts.     *)
ViewportW == 1280
ViewportH == 720
TOAST_WIDTH == 320
TOAST_SPACING == 10
TOAST_MARGIN == 20

(* Heights ImGui may give an auto-resized toast window.                    *)
WindowHeights == {48, 64}

(* Variant of the corner switch: every corner stacks downward.             *)
Anchor_alwaysDown(corner) ==
    CASE corner = 1 -> [x_pos |-> TOAST_MARGIN, y_pos |-> TOAST_MARGIN,
                        stack_downward |-> TRUE]
      [] corner = 2 -> [x_pos |-> ViewportW - TOAST_WIDTH - TOAST_MARGIN,
                        y_pos |-> ViewportH - TOAST_MARGIN, stack_downward |-> TRUE]
      [] corner = 3 -> [x_pos |-> TOAST_MARGIN, y_pos |-> ViewportH - TOAST_MARGIN,
                        stack_downward |-> TRUE]
      [] OTHER      -> [x_pos |-> ViewportW - TOAST_WIDTH - TOAST_MARGIN,
                        y_pos |-> TOAST_MARGIN, stack_downward |-> TRUE]

(* switch (position_corner_): where the first toast goes and which way     *)
(* the next ones follow.                                                   *)
Anchor(corner) ==
    CASE corner = 0 -> [x_pos |-> ViewportW - TOAST_WIDTH - TOAST_MARGIN,
                        y_pos |-> TOAST_MARGIN, stack_downward |-> TRUE]
      [] corner = 1 -> [x_pos |-> TOAST_MARGIN, y_pos |-> TOAST_MARGIN,
                        stack_downward |-> TRUE]
      [] corner = 2 -> [x_pos |-> ViewportW - TOAST_WIDTH - TOAST_MARGIN,
                        y_pos |-> ViewportH - TOAST_MARGIN, stack_downward |-> FALSE]
      [] corner = 3 -> [x_pos |-> TOAST_MARGIN, y_pos |-> ViewportH - TOAST_MARGIN,
                        stack_downward |-> FALSE]
      [] OTHER      -> [x_pos |-> ViewportW - TOAST_WIDTH - TOAST_MARGIN,
                        y_pos |-> TOAST_MARGIN, stack_downward |-> TRUE]

(* The SetNextWindowPos arguments of the n toasts drawn in one frame, each *)
(* window window_height high: current_y starts at y_pos and moves by       *)
(* window_height + TOAST_SPACING after each toast.                         *)
RECURSIVE WindowPositions(_, _, _, _)
WindowPositions(n, a, current_y, window_height) ==
    IF n = 0 THEN <<>>
    ELSE <<[x |-> a.x_pos, y |-> current_y]>> \o
         WindowPositions(n - 1, a,
                         IF a.stack_downward
                         THEN current_y + (window_height + TOAST_SPACING)
                         ELSE current_y - (window_height + TOAST_SPACING),
                         window_height)

(* Where render_toasts draws the surviving toasts q, for each height the   *)
(* windows may have.                                                       *)
toast_layout(q, corner) ==
    [h \in WindowHeights |-> WindowPositions(Len(q), Anchor(corner), Anchor(corner).y_pos, h)]

(* Variant of clear(): the statistics are reset as well.                   *)
clear_resetsCounters(v) ==
    [v EXCEPT !.toasts_ = <<>>, !.modal_error_ = {},
              !.error_count_ = 0, !.warning_count_ = 0, !.info_count_ = 0]

clear(v) == [v EXCEPT !.toasts_ = <<>>, !.modal_error_ = {}]

(* ImGui::BeginPopupModal("##CriticalError") returns true, and the window   *)
(* with its title and buttons is drawn, exactly while that popup is open.  *)
BeginPopupModal(v) == v.popup_open

(* Variant of render_modal: the slot is reset whenever the popup is drawn.  *)
render_modal_timer(v, click) ==
    IF v.popup_open THEN [v EXCEPT !.modal_error_ = {}] ELSE v

(* The popup's buttons: View Logs and Continue close it and reset the slot.*)
render_modal(v, click) ==
    IF BeginPopupModal(v) /\ click \in {"view_logs", "continue"}
    THEN [v EXCEPT !.popup_open = FALSE, !.modal_error_ = {}]
    ELSE v

render_statistics_window(v, click) ==
    IF click = "clear_all" THEN clear(v) ELSE v

render(v, dt, click) ==
    LET a == [v EXCEPT !.toasts_ = render_toasts(@, dt)]
        b == render_modal(a, click)
    IN IF b.show_statistics_ THEN render_statistics_window(b, click) ELSE b

(* What the user can press during one render call.                         *)
Clicks(v) ==
    {"none"} \cup (IF BeginPopupModal(v) THEN {"copy_details", "view_logs", "continue"} ELSE {})
             \cup (IF v.show_statistics_ THEN {"clear_all"} ELSE {})

(* Variant of the registered callback: enabled_ is not consulted.          *)
VisualizerObserver_ignoresEnabled(v, event) == on_exception(v, event)

(* Variant of the registered lambda: the event is dropped.                 *)
VisualizerObserver_drops(v, event) == v

(* The lambda the constructor registers: if (enabled_) on_exception(event). *)
VisualizerObserver(v, event) == IF v.enabled_ THEN on_exception(v, event) ELSE v

(*************************** ExceptionHandler ******************************)

(* Variants of the catch clauses: no catch (...); runtime_error first.     *)
CatchClauses_noCatchAll ==
    << [catches |-> "filesystem_error", severity |-> "Error",    type |-> "filesystem_error"],
       [catches |-> "system_error",     severity |-> "Error",    type |-> "system_error"],
       [catches |-> "runtime_error",    severity |-> "Error",    type |-> "runtime_error"],
       [catches |-> "exception",        severity |-> "Error",    type |-> "exception"] >>

CatchClauses_runtimeFirst ==
    << [catches |-> "runtime_error",    severity |-> "Error",    type |-> "runtime_error"],
       [catches |-> "filesystem_error", severity |-> "Error",    type |-> "filesystem_error"],
       [catches |-> "system_error",     severity |-> "Error",    type |-> "system_error"],
       [catches |-> "exception",        severity |-> "Error",    type |-> "exception"],
       [catches |-> "...",              severity |-> "Critical", type |-> "unknown"] >>

(* The catch clauses of wrap's lambda, in source order; "..." catches all. *)
CatchClauses ==
    << [catches |-> "filesystem_error", severity |-> "Error",    type |-> "filesystem_error"],
       [catches |-> "system_error",     severity |-> "Error",    type |-> "system_error"],
       [catches |-> "runtime_error",    severity |-> "Error",    type |-> "runtime_error"],
       [catches |-> "exception",        severity |-> "Error",    type |-> "exception"],
       [catches |-> "...",              severity |-> "Critical", type |-> "unknown"] >>

Matches(clause, thrown) == clause.catches = "..." \/ clause.catches \in Bases(thrown)

(* Index of the first clause that catches `thrown`; 0 when none does.      *)
RECURSIVE FirstMatch(_, _, _)
FirstMatch(clauses, thrown, i) ==
    IF i > Len(clauses) THEN 0
    ELSE IF Matches(clauses[i], thrown) THEN i
    ELSE FirstMatch(clauses, thrown, i + 1)

(* wrap's try block for a callable that throws `thrown` with what() = what *)
(* : the handle_exception arguments of the clause entered, or escaped.     *)
(* loc is the source_location wrap() was called with, which the lambda     *)
(* captures by value.                                                      *)
wrap(thrown, what, loc) ==
    LET i == FirstMatch(CatchClauses, thrown, 1) IN
    IF i = 0 THEN [caught |-> FALSE, msg |-> what, severity |-> "none", type |-> "none",
                   loc |-> loc]
    ELSE [caught |-> TRUE,
          msg |-> IF CatchClauses[i].catches = "..." THEN "Unknown exception" ELSE what,
          severity |-> CatchClauses[i].severity,
          type |-> CatchClauses[i].type,
          loc |-> loc]

(* Variant of handle_expected: the failure is reported as an Error.        *)
handle_expected_asError(result, loc) ==
    IF result.ok THEN {}
    ELSE {[msg |-> IF result.textual THEN result.error ELSE "Operation failed",
           severity |-> "Error", loc |-> loc]}

(* Variant of handle_expected: loc is not forwarded, so that report's       *)
(* defaulted argument is the location of the call inside handle_expected.  *)
handle_expected_ownLocation(result, loc) ==
    IF result.ok THEN {}
    ELSE {[msg |-> IF result.textual THEN result.error ELSE "Operation failed",
           severity |-> "Warn", loc |-> "exception_handler.hpp:67"]}

(* handle_expected: nothing on success, else the arguments given to report.*)
handle_expected(result, loc) ==
    IF result.ok THEN {}
    ELSE {[msg |-> IF result.textual THEN result.error ELSE "Operation failed",
           severity |-> "Warn", loc |-> loc]}

(* Variant of report: the severity is replaced by the default, Error.      *)
report_defaultSeverity(msg, sev, loc) ==
    [msg |-> msg, severity |-> "Error", type |-> "manual_report", loc |-> loc]

(* report: the arguments it passes to handle_exception.                    *)
report(msg, sev, loc) ==
    [msg |-> msg, severity |-> sev, type |-> "manual_report", loc |-> loc]

(* Variant of add_observer: the callback is put in front.                  *)
add_observer_front(obs, o) == <<o>> \o obs

add_observer(obs, o) == Append(obs, o)

(* Variant of remove_observers: the first callback stays registered.       *)
remove_observers_keepsFirst(obs) == IF obs = <<>> THEN <<>> ELSE <<Head(obs)>>

remove_observers(obs) == <<>>

(* handle_exception is declared in the header and defined in no file of    *)
(* src/; modelled from the specification: one event is built and handed to *)
(* every registered observer in list order, under the observer lock.       *)
RECURSIVE NotifyAll(_, _, _)
NotifyAll(obs, v, event) ==
    IF obs = <<>> THEN [viz |-> v, invoked |-> <<>>]
    ELSE LET v1 == IF Head(obs) = "visualizer" THEN VisualizerObserver(v, event) ELSE v
             rest == NotifyAll(Tail(obs), v1, event)
         IN [viz |-> rest.viz,
             invoked |-> <<[obs |-> Head(obs), ev |-> event.id]>> \o rest.invoked]

handle_exception(obs, v, id, msg, sev, type, loc) ==
    LET event == [id |-> id, message |-> msg, severity |-> sev, type_name |-> type,
                  location |-> loc]
        r == NotifyAll(obs, v, event)
    IN [viz |-> r.viz, invoked |-> r.invoked, event |-> event]

(* Whether handle_exception re-raises: never with throw_on_critical_ off;  *)
(* with it on, a Critical event may or may not be re-raised.               *)
Rethrows(toc, sev) == IF toc /\ sev = "Critical" THEN {TRUE, FALSE} ELSE {FALSE}

(*************************** state machine *********************************)

(* Threads: the UI thread, which calls render, and two others.             *)
Workers == {"w1", "w2"}
Threads == {"render"} \cup Workers

NoArg == [event |-> {}, click |-> "none", dt |-> 0, i |-> 0, snap |-> <<>>, got |-> <<>>]

NoStep == [op |-> "init", input |-> "none", ev |-> {}, invoked |-> <<>>,
           delivery |-> "none", outcome |-> "returned", pending_before |-> FALSE,
           expired |-> {}, click |-> "none", dt |-> 0, gone |-> {},
           modal_drawn |-> FALSE, site |-> "none", layout |-> <<>>]

FreshBatch == [valid |-> TRUE, ids |-> <<>>]
NoBatch == [valid |-> FALSE, ids |-> <<>>]

(* The batch after a step that is not an enqueue: it restarts when the     *)
(* step leaves the queue empty and is void otherwise.                      *)
ResetBatch(q) == IF q = <<>> THEN FreshBatch ELSE NoBatch

(* Which path of the visualizer's callback an event of severity sev takes. *)
Delivery(obs, v, sev) ==
    IF \A i \in 1..Len(obs) : obs[i] # "visualizer" THEN "unregistered"
    ELSE IF ~v.enabled_ THEN "disabled"
    ELSE IF sev = "Critical" THEN "critical"
    ELSE "toast"

(* The static of get() before any call of get(): not constructed, no       *)
(* reference handed out.  built counts the ExceptionHandler objects        *)
(* constructed, refs[t] is the object thread t's latest get() returned     *)
(* (0: none yet), contended is history: a thread entered get() while       *)
(* another was constructing the static.                                    *)
NoInstance ==
    [state |-> "uninit", built |-> 0, refs |-> [t \in Threads |-> 0],
     contended |-> FALSE]

(* The static once the program has started: the visualizer's constructor   *)
(* called get() to register, every thread uses that object.                *)
ReadyInstance ==
    [state |-> "ready", built |-> 1, refs |-> [t \in Threads |-> 1],
     contended |-> FALSE]

Init ==
    /\ observers_ = <<"visualizer">>
    /\ throw_on_critical_ = FALSE
    /\ viz = [toasts_ |-> <<>>, modal_error_ |-> {}, popup_open |-> FALSE,
              enabled_ |-> TRUE, max_toasts_ |-> DefaultMaxToasts,
              toast_lifetime_ |-> DefaultToastLifetime,
              error_count_ |-> 0, warning_count_ |-> 0, info_count_ |-> 0,
              show_statistics_ |-> FALSE, position_corner_ |-> 0, alive |-> TRUE]
    /\ nextId = 0
    /\ registered = <<"visualizer">>
    /\ batch = FreshBatch
    /\ lastCritical = 0
    /\ last = NoStep
    /\ mutex_ = "free"
    /\ observer_mutex_ = "free"
    /\ pc = [t \in Threads |-> "idle"]
    /\ arg = [t \in Threads |-> NoArg]
    /\ busy = [t \in Threads |-> "none"]
    /\ raced = [t \in Threads |-> FALSE]
    /\ delivered = [s \in Severities |-> 0]
    /\ instance_ = ReadyInstance

Range(q) == {q[i] : i \in 1..Len(q)}

(* The callback the constructor registered captures `this`; once the       *)
(* visualizer is destroyed, calling it is a use of a dead object, which    *)
(* may act on the old memory as if it were alive, have no visible effect,  *)
(* or crash.                                                               *)
Dangling(obs, v) == ~v.alive /\ "visualizer" \in Range(obs)

(* An entry point, called at `site`, that reaches                          *)
(* handle_exception(msg, sev, type, loc).                                  *)
Publish(op, input, site, msg, sev, type, loc) ==
    LET r == handle_exception(observers_, viz, nextId + 1, msg, sev, type, loc)
        d == Delivery(observers_, viz, sev)
        dead == Dangling(observers_, viz)
    IN \E threw \in (IF dead THEN {"no", "yes", "crashed"}
                     ELSE {IF t THEN "yes" ELSE "no" : t \in Rethrows(throw_on_critical_, sev)}),
          after \in (IF dead THEN {r.viz, viz} ELSE {r.viz}) :
        /\ (threw = "yes") => TRUE \in Rethrows(throw_on_critical_, sev)
        /\ viz' = after
        /\ nextId' = nextId + 1
        /\ batch' = IF d = "toast" /\ batch.valid
                    THEN [batch EXCEPT !.ids = Append(@, nextId + 1)] ELSE batch
        /\ lastCritical' = IF d = "critical" THEN nextId + 1 ELSE lastCritical
        /\ last' = [op |-> op, input |-> input, ev |-> {r.event}, invoked |-> r.invoked,
                    delivery |-> d,
                    outcome |-> IF threw = "crashed" THEN "crashed"
                                ELSE IF threw = "yes" THEN "threw"
                                ELSE IF op = "wrap" THEN "returned_default" ELSE "returned",
                    pending_before |-> d = "critical" /\ viz.modal_error_ # {},
                    expired |-> {}, click |-> "none", dt |-> 0, gone |-> {},
                    modal_drawn |-> FALSE, site |-> site, layout |-> <<>>]
        /\ UNCHANGED <<observers_, throw_on_critical_, registered>>
        /\ UNCHANGED tvars

(* An entry point that publishes nothing.                                  *)
NoPublish(op, input, outcome) ==
    /\ last' = [NoStep EXCEPT !.op = op, !.input = input, !.outcome = outcome]
    /\ UNCHANGED <<observers_, throw_on_critical_, viz, nextId, registered, batch, lastCritical>>
    /\ UNCHANGED tvars

(* Variant of the adapter: a normal return of f is published as well.      *)
WrapCall_reportsSuccess(max) ==
    /\ nextId < max
    /\ \E thrown \in FailureTypes \cup {"ok"}, what \in Messages :
        LET w == wrap(thrown, what, HereSite) IN
        IF thrown = "ok"
        THEN Publish("wrap", "ok", HereSite, what, "Info", "exception", HereSite)
        ELSE IF w.caught
        THEN Publish("wrap", thrown, HereSite, w.msg, w.severity, w.type, w.loc)
        ELSE NoPublish("wrap", thrown, "threw")

(* Calling the adapter made by wrap(f) at one of `sites` returns: f        *)
(* returns, or throws `thrown`.                                            *)
WrapCallAt(max, sites) ==
    /\ nextId < max
    /\ \E thrown \in FailureTypes \cup {"ok"}, what \in Messages, site \in sites :
        IF thrown = "ok" THEN NoPublish("wrap", "ok", "returned_result")
        ELSE LET w == wrap(thrown, what, site) IN
             IF w.caught THEN Publish("wrap", thrown, site, w.msg, w.severity, w.type, w.loc)
             ELSE NoPublish("wrap", thrown, "threw")

WrapCall(max) == WrapCallAt(max, {HereSite})

ExpectedResults ==
    {[ok |-> TRUE, textual |-> TRUE, error |-> "none"]}
    \cup {[ok |-> FALSE, textual |-> TRUE, error |-> m] : m \in Payloads}
    \cup {[ok |-> FALSE, textual |-> FALSE, error |-> "errc"]}

(* handle_expected(result) called at one of `sites`.                       *)
HandleExpectedAt(max, sites) ==
    /\ nextId < max
    /\ \E result \in ExpectedResults, site \in sites :
        LET calls == handle_expected(result, site) IN
        IF calls = {} THEN NoPublish("handle_expected", "ok", "returned")
        ELSE \E c \in calls :
             LET a == report(c.msg, c.severity, c.loc) IN
             Publish("handle_expected", IF result.textual THEN "textual" ELSE "opaque",
                     site, a.msg, a.severity, a.type, a.loc)

HandleExpected(max) == HandleExpectedAt(max, {HereSite})

(* report(msg, sev) called at one of `sites`.                              *)
ReportAt(max, sevs, sites) ==
    /\ nextId < max
    /\ \E msg \in Messages, sev \in sevs, site \in sites :
        LET a == report(msg, sev, site) IN
        Publish("report", sev, site, a.msg, a.severity, a.type, a.loc)

Report(max, sevs) == ReportAt(max, sevs, {HereSite})

AddObserver ==
    /\ Len(observers_) < MaxObservers
    /\ \E o \in OtherObservers :
        /\ observers_' = add_observer(observers_, o)
        /\ registered' = Append(registered, o)
        /\ last' = [NoStep EXCEPT !.op = "add_observer", !.input = o]
    /\ UNCHANGED <<throw_on_critical_, viz, nextId, batch, lastCritical>>
    /\ UNCHANGED tvars

RemoveObservers ==
    /\ observers_' = remove_observers(observers_)
    /\ registered' = <<>>
    /\ last' = [NoStep EXCEPT !.op = "remove_observers"]
    /\ UNCHANGED <<throw_on_critical_, viz, nextId, batch, lastCritical>>
    /\ UNCHANGED tvars

SetThrowOnCritical ==
    /\ \E b \in BOOLEAN : throw_on_critical_' = b
    /\ last' = [NoStep EXCEPT !.op = "set_throw_on_critical"]
    /\ UNCHANGED <<observers_, viz, nextId, registered, batch, lastCritical>>
    /\ UNCHANGED tvars

(* A step of the visualizer alone: viz becomes v.                          *)
VizStep(op, input, v, b) ==
    /\ viz' = v
    /\ batch' = b
    /\ last' = [NoStep EXCEPT !.op = op, !.input = input]
    /\ UNCHANGED <<observers_, throw_on_critical_, nextId, registered, lastCritical>>
    /\ UNCHANGED tvars

ToastIds(q) == [i \in 1..Len(q) |-> q[i].id]
IdSet(q) == {q[i].id : i \in 1..Len(q)}

(* The notifications of q a render call with dt erased, each with the      *)
(* render time it had seen, the final dt included.                         *)
Gone(q, after, dt) ==
    {[id |-> q[i].id, elapsed |-> q[i].elapsed + dt] :
        i \in {j \in 1..Len(q) : q[j].id \notin IdSet(after)}}

(* The queue without the history of the render time each toast has seen.  *)
Untracked(q) == [i \in 1..Len(q) |-> [q[i] EXCEPT !.elapsed = 0]]

(* One call of render(dt).  With timed, the step also records dt and the   *)
(* notifications erased with the render time each had seen; without        *)
(* tracked, the toasts' elapsed history is not kept.                       *)
RenderStep(dts, timed, tracked) ==
    \E dt \in dts, click \in Clicks(viz) :
      \E r \in {render(viz, dt, click)} :
        \E v \in {IF tracked THEN r ELSE [r EXCEPT !.toasts_ = Untracked(@)]} :
        /\ viz' = v
        /\ batch' = ResetBatch(v.toasts_)
        /\ last' = [NoStep EXCEPT !.op = "render", !.click = click,
                                  !.dt = IF timed THEN dt ELSE 0,
                                  !.pending_before = viz.modal_error_ # {},
                                  !.expired = IdSet(viz.toasts_) \ IdSet(v.toasts_),
                                  !.gone = IF timed /\ tracked
                                           THEN Gone(viz.toasts_, v.toasts_, dt)
                                           ELSE {},
                                  !.modal_drawn = BeginPopupModal(viz),
                                  !.layout = IF timed /\ tracked
                                             THEN toast_layout(v.toasts_, v.position_corner_)
                                             ELSE <<>>]
        /\ UNCHANGED <<observers_, throw_on_critical_, nextId, registered, lastCritical>>
        /\ UNCHANGED tvars

Render(dts) == RenderStep(dts, FALSE, TRUE)

RenderTimed(dts) == RenderStep(dts, TRUE, TRUE)

RenderUntracked(dts) == RenderStep(dts, TRUE, FALSE)

(* Variant of clear(): it also reports what it did through the handler.    *)
Clear_reports ==
    /\ nextId < MaxEvents
    /\ Publish("clear", "none", HereSite, "msgA", "Info", "manual_report", HereSite)

Clear == VizStep("clear", "none", clear(viz), FreshBatch)

SetEnabled ==
    \E b \in BOOLEAN : VizStep("set_enabled", "none", [viz EXCEPT !.enabled_ = b], batch)

SetMaxToasts ==
    \E k \in 0..MaxK :
        VizStep("set_max_toasts", "none", [viz EXCEPT !.max_toasts_ = k],
                ResetBatch(viz.toasts_))

Corners == -1..4     \* arguments of set_position_corner(int)

SetPositionCorner ==
    \E c \in Corners :
        VizStep("set_position_corner", "none", [viz EXCEPT !.position_corner_ = c], batch)

(* Variant of set_toast_lifetime: the queued toasts are restarted with the *)
(* new lifetime.                                                           *)
SetToastLifetimeIn_retroactive(lifetimes) ==
    \E s \in lifetimes :
        VizStep("set_toast_lifetime", "none",
                [viz EXCEPT !.toast_lifetime_ = s,
                            !.toasts_ = [i \in 1..Len(@) |->
                                           [@[i] EXCEPT !.lifetime = s,
                                                        !.initial_lifetime = s]]],
                batch)

(* set_toast_lifetime(s) with s from `lifetimes`.                          *)
SetToastLifetimeIn(lifetimes) ==
    \E s \in lifetimes :
        VizStep("set_toast_lifetime", "none", [viz EXCEPT !.toast_lifetime_ = s], batch)

SetToastLifetime == SetToastLifetimeIn(LifetimeSet)

(* The visualizer driven by report() and its own interface.               *)
NextViz ==
    \/ Report(MaxEvents, VizSeverities)
    \/ Render(DtSet)
    \/ Clear
    \/ SetMaxToasts
    \/ SetToastLifetime

SpecViz == Init /\ [][NextViz]_vars

(* Notifications ageing by float frame times.                              *)
NextFloat ==
    \/ Report(MaxCalls, {"Warn"})
    \/ Render(FrameDts)
    \/ Clear

SpecFloat == Init /\ [][NextFloat]_vars

(* Notifications of several configured lifetimes fading from frame to      *)
(* frame.                                                                  *)
NextFade ==
    \/ Report(MaxFaded, {"Warn"})
    \/ Render(FadeDts)
    \/ SetToastLifetimeIn(FadeLifetimes)

SpecFade == Init /\ [][NextFade]_vars

(* The handler's interface, the visualizer left as constructed.           *)
NextHandler ==
    \/ WrapCall(MaxCalls)
    \/ HandleExpected(MaxCalls)
    \/ Report(MaxCalls, Severities)
    \/ AddObserver
    \/ RemoveObservers
    \/ SetThrowOnCritical
    \/ SetEnabled

SpecHandler == Init /\ [][NextHandler]_vars

(* Failures caught by wrap adapters, then frames of toast_lifetime - 0.1   *)
(* and of 0.2 seconds.                                                     *)
ScenarioDts == {FloatSub(DefaultToastLifetime, TenthF), FifthF}

NextScenario ==
    \/ WrapCall(MaxCalls)
    \/ RenderTimed(ScenarioDts)

(* The entry points called from several places of the program.             *)
NextLocation ==
    \/ WrapCallAt(MaxCalls, CallSites)
    \/ HandleExpectedAt(MaxCalls, CallSites)
    \/ ReportAt(MaxCalls, {"Warn", "Critical"}, CallSites)

SpecLocation == Init /\ [][NextLocation]_vars

(* The visualizer switched off and on while events arrive and frames are   *)
(* drawn.                                                                  *)
NextEnabled ==
    \/ Report(MaxCalls, {"Warn", "Critical"})
    \/ Render(DtSet)
    \/ SetEnabled

SpecEnabled == Init /\ [][NextEnabled]_vars

(* ~ExceptionVisualizer(): the object dies; nothing is unregistered.       *)
DestroyOverlay ==
    /\ viz.alive
    /\ VizStep("destroy", "none", [viz EXCEPT !.alive = FALSE], batch)

(* The visualizer destroyed while the handler, a process-wide singleton,   *)
(* goes on publishing; the host clears the observers when it chooses to.   *)
NextLifetime ==
    \/ Report(MaxCalls, VizSeverities)
    \/ viz.alive /\ Render(DtSet)
    \/ DestroyOverlay
    \/ RemoveObservers

SpecLifetime == Init /\ [][NextLifetime]_vars

(* The queue and the modal slot under events, frames whose delta-time is   *)
(* recorded, clear() and the two configuration setters.                    *)
NextQueue ==
    \/ Report(MaxCalls, VizSeverities)
    \/ RenderTimed(DtSet)
    \/ Clear
    \/ SetMaxToasts
    \/ SetToastLifetime

SpecQueue == Init /\ [][NextQueue]_vars

(* Frames that never stop coming, each with a positive delta-time, while   *)
(* events arrive and the host changes the configuration.                   *)
NextExpiry ==
    \/ Report(MaxCalls, {"Warn"})
    \/ RenderUntracked(ExpiryDts)
    \/ SetMaxToasts
    \/ SetToastLifetime

SpecExpiry ==
    Init /\ [][NextExpiry]_vars /\ WF_vars(RenderUntracked(ExpiryDts))

(* Notifications drawn at the corner the host chose.                       *)
NextLayout ==
    \/ Report(MaxCalls, {"Warn", "Error"})
    \/ RenderTimed({Second})
    \/ SetPositionCorner

SpecLayout == Init /\ [][NextLayout]_vars

SpecScenario == Init /\ [][NextScenario]_vars

(* The whole program.                                                       *)
Next == NextViz \/ NextHandler \/ NextFloat

Spec == Init /\ [][Next]_vars

(*************************** threads ***************************************)

(* Variant of the lock: the constructor does not wait.                     *)
lock_guard_noWait(m) == TRUE

(* std::lock_guard lock(m): the constructor returns once m is free.        *)
lock_guard(m) == m = "free"

Goto(t, label) == pc' = [pc EXCEPT ![t] = label]

(* modal_error_ is a plain std::optional: an access to it takes time, and  *)
(* two accesses conflict when they overlap and one of them writes.         *)
Conflict(k1, k2) == k1 # "none" /\ k2 # "none" /\ (k1 = "write" \/ k2 = "write")

BeginAccess(t, kind) ==
    /\ busy' = [busy EXCEPT ![t] = kind]
    /\ raced' = [u \in Threads |->
                    IF u = t THEN \E w \in Threads \ {t} : Conflict(busy[w], kind)
                    ELSE raced[u] \/ Conflict(busy[u], kind)]

EndAccess(t) ==
    /\ busy' = [busy EXCEPT ![t] = "none"]
    /\ raced' = [raced EXCEPT ![t] = FALSE]

(* What modal_error_ may hold when thread t's write of val ends: val, or,  *)
(* after a data race, also what the other access left or a torn object.    *)
Torn == {[id |-> 0, message |-> "torn", severity |-> "Critical", type_name |-> "torn",
          location |-> "torn"]}

Stored(t, val) == IF raced[t] THEN {val, viz.modal_error_, Torn} ELSE {val}

(* The registered lambda called on thread t: enabled_ is read, the event's *)
(* counter is incremented (std::atomic, one step), the branch is taken.    *)
OnExceptionEnter(t) ==
    /\ t \in Workers /\ pc[t] = "idle"
    /\ nextId < MaxCalls
    /\ viz.enabled_
    /\ \E sev \in Severities, msg \in Messages :
        /\ viz' = UpdateStatistics(viz, sev)
        /\ arg' = [arg EXCEPT ![t] = [NoArg EXCEPT !.event =
                      {[id |-> nextId + 1, message |-> msg, severity |-> sev,
                        type_name |-> "manual_report", location |-> HereSite]}]]
        /\ delivered' = [delivered EXCEPT ![sev] = @ + 1]
        /\ Goto(t, IF sev = "Critical" THEN "oe_modal" ELSE "oe_lock")
    /\ nextId' = nextId + 1
    /\ UNCHANGED <<observers_, throw_on_critical_, registered, batch, lastCritical, last,
                   mutex_, observer_mutex_, busy, raced, instance_>>

(* modal_error_ = event, without the mutex.                                *)
OnExceptionModalBegin(t) ==
    /\ pc[t] = "oe_modal"
    /\ BeginAccess(t, "write")
    /\ Goto(t, "oe_modal_end")
    /\ UNCHANGED <<observers_, throw_on_critical_, viz, nextId, registered, batch,
                   lastCritical, last, mutex_, observer_mutex_, arg, delivered, instance_>>

OnExceptionModalEnd(t) ==
    /\ pc[t] = "oe_modal_end"
    /\ \E m \in Stored(t, arg[t].event) : viz' = [viz EXCEPT !.modal_error_ = m]
    /\ EndAccess(t)
    /\ Goto(t, "oe_popup")
    /\ UNCHANGED <<observers_, throw_on_critical_, nextId, registered, batch,
                   lastCritical, last, mutex_, observer_mutex_, arg, delivered, instance_>>

(* ImGui::OpenPopup("##CriticalError"); return.                            *)
OnExceptionOpenPopup(t) ==
    /\ pc[t] = "oe_popup"
    /\ viz' = [viz EXCEPT !.popup_open = TRUE]
    /\ arg' = [arg EXCEPT ![t] = NoArg]
    /\ Goto(t, "idle")
    /\ UNCHANGED <<observers_, throw_on_critical_, nextId, registered, batch,
                   lastCritical, last, mutex_, observer_mutex_, busy, raced, delivered, instance_>>

(* std::lock_guard lock(mutex_) of the toast path.                         *)
OnExceptionLock(t) ==
    /\ pc[t] = "oe_lock"
    /\ lock_guard(mutex_)
    /\ mutex_' = t
    /\ Goto(t, "oe_push")
    /\ UNCHANGED <<observers_, throw_on_critical_, viz, nextId, registered, batch,
                   lastCritical, last, observer_mutex_, arg, busy, raced, delivered, instance_>>

(* push_back, the eviction loop, and the unlock at return.                 *)
OnExceptionPush(t) ==
    /\ pc[t] = "oe_push"
    /\ \E event \in arg[t].event :
        viz' = [viz EXCEPT !.toasts_ =
                   LimitToastCount(Append(@, MakeToast(event, viz.toast_lifetime_)),
                                   viz.max_toasts_)]
    /\ mutex_' = "free"
    /\ arg' = [arg EXCEPT ![t] = NoArg]
    /\ Goto(t, "idle")
    /\ UNCHANGED <<observers_, throw_on_critical_, nextId, registered, batch,
                   lastCritical, last, observer_mutex_, busy, raced, delivered, instance_>>

(* clear(): lock, toasts_.clear(), modal_error_.reset(), unlock.           *)
ClearLock(t) ==
    /\ t \in Workers /\ pc[t] = "idle"
    /\ lock_guard(mutex_)
    /\ mutex_' = t
    /\ Goto(t, "clr_toasts")
    /\ UNCHANGED <<observers_, throw_on_critical_, viz, nextId, registered, batch,
                   lastCritical, last, observer_mutex_, arg, busy, raced, delivered, instance_>>

ClearToasts(t) ==
    /\ pc[t] = "clr_toasts"
    /\ viz' = [viz EXCEPT !.toasts_ = <<>>]
    /\ Goto(t, "clr_modal")
    /\ UNCHANGED <<observers_, throw_on_critical_, nextId, registered, batch,
                   lastCritical, last, mutex_, observer_mutex_, arg, busy, raced, delivered, instance_>>

ClearModalBegin(t) ==
    /\ pc[t] = "clr_modal"
    /\ BeginAccess(t, "write")
    /\ Goto(t, "clr_modal_end")
    /\ UNCHANGED <<observers_, throw_on_critical_, viz, nextId, registered, batch,
                   lastCritical, last, mutex_, observer_mutex_, arg, delivered, instance_>>

ClearModalEnd(t) ==
    /\ pc[t] = "clr_modal_end"
    /\ \E m \in Stored(t, {}) : viz' = [viz EXCEPT !.modal_error_ = m]
    /\ EndAccess(t)
    /\ mutex_' = "free"
    /\ Goto(t, "idle")
    /\ UNCHANGED <<observers_, throw_on_critical_, nextId, registered, batch,
                   lastCritical, last, observer_mutex_, arg, delivered, instance_>>

(* render(dt) on the UI thread: render_toasts under the mutex, then        *)
(* render_modal without it.                                                *)
RenderLock(t) ==
    /\ t = "render" /\ pc[t] = "idle"
    /\ lock_guard(mutex_)
    /\ mutex_' = t
    /\ Goto(t, "rt_toasts")
    /\ UNCHANGED <<observers_, throw_on_critical_, viz, nextId, registered, batch,
                   lastCritical, last, observer_mutex_, arg, busy, raced, delivered, instance_>>

(* The body of render_toasts under the guard: an empty queue returns at    *)
(* once, which releases the guard; otherwise the toasts are aged and the   *)
(* expired ones erased, and the survivors remain to be drawn.              *)
RenderToastsIn(t, dts) ==
    /\ pc[t] = "rt_toasts"
    /\ IF viz.toasts_ = <<>>
       THEN /\ mutex_' = "free"
            /\ Goto(t, "rm_popup")
            /\ UNCHANGED viz
       ELSE /\ \E dt \in dts : viz' = [viz EXCEPT !.toasts_ = render_toasts(@, dt)]
            /\ Goto(t, "rt_draw")
            /\ UNCHANGED mutex_
    /\ UNCHANGED <<observers_, throw_on_critical_, nextId, registered, batch,
                   lastCritical, last, observer_mutex_, arg, busy, raced, delivered, instance_>>

RenderToasts(t) == RenderToastsIn(t, DtSet)

(* The ImGui calls of render_toasts (GetMainViewport, SetNextWindowPos,    *)
(* Begin, Text, End, the style pushes), issued while the guard taken at    *)
(* the top of the function is still alive; the guard dies at the closing   *)
(* brace.                                                                  *)
RenderDraw(t) ==
    /\ pc[t] = "rt_draw"
    /\ mutex_' = "free"
    /\ Goto(t, "rm_popup")
    /\ UNCHANGED <<observers_, throw_on_critical_, viz, nextId, registered, batch,
                   lastCritical, last, observer_mutex_, arg, busy, raced, delivered, instance_>>

RenderModalBegin(t) ==
    /\ pc[t] = "rm_popup"
    /\ IF BeginPopupModal(viz)
       THEN \E click \in Clicks(viz) :
               /\ arg' = [arg EXCEPT ![t] = [NoArg EXCEPT !.click = click]]
               /\ BeginAccess(t, IF click \in {"view_logs", "continue"}
                                 THEN "write" ELSE "read")
               /\ Goto(t, "rm_end")
       ELSE /\ Goto(t, "idle")
            /\ UNCHANGED <<arg, busy, raced>>
    /\ UNCHANGED <<observers_, throw_on_critical_, viz, nextId, registered, batch,
                   lastCritical, last, mutex_, observer_mutex_, delivered, instance_>>

RenderModalEnd(t) ==
    /\ pc[t] = "rm_end"
    /\ LET after == render_modal(viz, arg[t].click) IN
       IF busy[t] = "write"
       THEN \E m \in Stored(t, after.modal_error_) :
               viz' = [after EXCEPT !.modal_error_ = m]
       ELSE viz' = after
    /\ EndAccess(t)
    /\ arg' = [arg EXCEPT ![t] = NoArg]
    /\ Goto(t, "idle")
    /\ UNCHANGED <<observers_, throw_on_critical_, nextId, registered, batch,
                   lastCritical, last, mutex_, observer_mutex_, delivered, instance_>>

(* Events delivered to the visualizer on two threads while a third clears  *)
(* and the UI thread renders.                                              *)
NextOverlayThreads ==
    \E t \in Threads :
        \/ OnExceptionEnter(t)
        \/ OnExceptionModalBegin(t)
        \/ OnExceptionModalEnd(t)
        \/ OnExceptionOpenPopup(t)
        \/ OnExceptionLock(t)
        \/ OnExceptionPush(t)
        \/ ClearLock(t)
        \/ ClearToasts(t)
        \/ ClearModalBegin(t)
        \/ ClearModalEnd(t)
        \/ RenderLock(t)
        \/ RenderToasts(t)
        \/ RenderDraw(t)
        \/ RenderModalBegin(t)
        \/ RenderModalEnd(t)

SpecOverlayThreads == Init /\ [][NextOverlayThreads]_vars

(* handle_exception on thread t, from the specification: the observer     *)
(* lock is taken, the event is built, the observers are invoked one after  *)
(* the other in list order, the lock is released.  snap is history: the    *)
(* list when the lock was taken; got is history: the observers invoked.    *)
PublishLock(t) ==
    /\ t \in Workers /\ pc[t] = "idle"
    /\ nextId < MaxCalls
    /\ lock_guard(observer_mutex_)
    /\ observer_mutex_' = t
    /\ \E sev \in {"Warn", "Critical"}, msg \in Messages :
        arg' = [arg EXCEPT ![t] = [NoArg EXCEPT
                   !.event = {[id |-> nextId + 1, message |-> msg, severity |-> sev,
                               type_name |-> "manual_report", location |-> HereSite]},
                   !.i = 1, !.snap = observers_]]
    /\ nextId' = nextId + 1
    /\ Goto(t, "pub_iter")
    /\ UNCHANGED <<observers_, throw_on_critical_, viz, registered, batch, lastCritical,
                   last, mutex_, busy, raced, delivered, instance_>>

PublishInvoke(t) ==
    /\ pc[t] = "pub_iter"
    /\ arg[t].i <= Len(observers_)
    /\ \E event \in arg[t].event :
        viz' = IF observers_[arg[t].i] = "visualizer"
               THEN VisualizerObserver(viz, event) ELSE viz
    /\ arg' = [arg EXCEPT ![t].i = @ + 1,
                          ![t].got = Append(@, observers_[arg[t].i])]
    /\ UNCHANGED <<observers_, throw_on_critical_, nextId, registered, batch, lastCritical,
                   last, mutex_, observer_mutex_, pc, busy, raced, delivered, instance_>>

PublishUnlock(t) ==
    /\ pc[t] = "pub_iter"
    /\ arg[t].i > Len(observers_)
    /\ observer_mutex_' = "free"
    /\ Goto(t, "pub_done")
    /\ UNCHANGED <<observers_, throw_on_critical_, viz, nextId, registered, batch,
                   lastCritical, last, mutex_, arg, busy, raced, delivered, instance_>>

(* The entry point returns to its caller.                                  *)
PublishReturn(t) ==
    /\ pc[t] = "pub_done"
    /\ arg' = [arg EXCEPT ![t] = NoArg]
    /\ Goto(t, "idle")
    /\ UNCHANGED <<observers_, throw_on_critical_, viz, nextId, registered, batch,
                   lastCritical, last, mutex_, observer_mutex_, busy, raced, delivered, instance_>>

(* add_observer on thread t: lock_guard, push_back, unlock.                *)
AddObserverLock(t) ==
    /\ t \in Threads /\ pc[t] = "idle"
    /\ Len(observers_) < MaxObservers
    /\ lock_guard(observer_mutex_)
    /\ observer_mutex_' = t
    /\ Goto(t, "add_push")
    /\ UNCHANGED <<observers_, throw_on_critical_, viz, nextId, registered, batch,
                   lastCritical, last, mutex_, arg, busy, raced, delivered, instance_>>

AddObserverPush(t) ==
    /\ pc[t] = "add_push"
    /\ \E o \in OtherObservers :
        /\ observers_' = add_observer(observers_, o)
        /\ registered' = Append(registered, o)
    /\ observer_mutex_' = "free"
    /\ Goto(t, "idle")
    /\ UNCHANGED <<throw_on_critical_, viz, nextId, batch, lastCritical, last, mutex_,
                   arg, busy, raced, delivered, instance_>>

(* remove_observers on thread t: lock_guard, clear, unlock.                *)
RemoveObserversLock(t) ==
    /\ t \in Threads /\ pc[t] = "idle"
    /\ lock_guard(observer_mutex_)
    /\ observer_mutex_' = t
    /\ Goto(t, "rm_clear")
    /\ UNCHANGED <<observers_, throw_on_critical_, viz, nextId, registered, batch,
                   lastCritical, last, mutex_, arg, busy, raced, delivered, instance_>>

RemoveObserversClear(t) ==
    /\ pc[t] = "rm_clear"
    /\ observers_' = remove_observers(observers_)
    /\ registered' = <<>>
    /\ observer_mutex_' = "free"
    /\ Goto(t, "idle")
    /\ UNCHANGED <<throw_on_critical_, viz, nextId, batch, lastCritical, last, mutex_,
                   arg, busy, raced, delivered, instance_>>

(* Threads that publish, register and clear observers at the same time.    *)
NextObserverThreads ==
    \E t \in Threads :
        \/ PublishLock(t)
        \/ PublishInvoke(t)
        \/ PublishUnlock(t)
        \/ PublishReturn(t)
        \/ AddObserverLock(t)
        \/ AddObserverPush(t)
        \/ RemoveObserversLock(t)
        \/ RemoveObserversClear(t)

SpecObserverThreads == Init /\ [][NextObserverThreads]_vars

(* A publishing thread inside handle_exception calls the registered        *)
(* lambda, and with it on_exception, while it holds observer_mutex_; the  *)
(* steps below follow one thread through both functions.  A thread that    *)
(* has called a function whose first statement is a lock_guard stands at   *)
(* a *_lock label until the mutex is free.                                 *)
LockSeverities == {"Warn", "Critical"}
LockDts == {2 * Second}       \* render's dt in SpecLocks: 2.0f

PublishCall(t) ==
    /\ t \in Workers /\ pc[t] = "idle"
    /\ nextId + Cardinality({u \in Workers : pc[u] = "pub_lock"}) < MaxCalls
    /\ Goto(t, "pub_lock")
    /\ UNCHANGED <<observers_, throw_on_critical_, viz, nextId, registered, batch,
                   lastCritical, last, mutex_, observer_mutex_, arg, busy, raced,
                   delivered, instance_>>

PublishAcquire(t) ==
    /\ pc[t] = "pub_lock"
    /\ lock_guard(observer_mutex_)
    /\ observer_mutex_' = t
    /\ \E sev \in LockSeverities, msg \in Messages :
        arg' = [arg EXCEPT ![t] = [NoArg EXCEPT
                   !.event = {[id |-> nextId + 1, message |-> msg, severity |-> sev,
                               type_name |-> "manual_report", location |-> HereSite]},
                   !.i = 1, !.snap = observers_]]
    /\ nextId' = nextId + 1
    /\ Goto(t, "pub_iter")
    /\ UNCHANGED <<observers_, throw_on_critical_, viz, registered, batch, lastCritical,
                   last, mutex_, busy, raced, delivered, instance_>>

(* The observer about to be invoked is the overlay's lambda, the overlay   *)
(* is enabled and the event is not Critical: on_exception will reach its   *)
(* lock_guard.                                                             *)
TakesToastPath(t) ==
    /\ arg[t].i \in 1..Len(observers_)
    /\ observers_[arg[t].i] = "visualizer"
    /\ viz.enabled_
    /\ \E event \in arg[t].event : event.severity # "Critical"

(* An invocation that returns without touching mutex_: another observer,   *)
(* a disabled overlay, or the Critical branch of on_exception.             *)
PublishNotify(t) ==
    /\ pc[t] = "pub_iter"
    /\ ~TakesToastPath(t)
    /\ PublishInvoke(t)

(* on_exception up to its lock_guard: the counter is incremented.          *)
PublishOnExceptionEnter(t) ==
    /\ pc[t] = "pub_iter"
    /\ TakesToastPath(t)
    /\ \E event \in arg[t].event : viz' = UpdateStatistics(viz, event.severity)
    /\ Goto(t, "oe_lock")
    /\ UNCHANGED <<observers_, throw_on_critical_, nextId, registered, batch,
                   lastCritical, last, mutex_, observer_mutex_, arg, busy, raced,
                   delivered, instance_>>

(* Variant of the end of on_exception: the guard on mutex_ is not released.*)
PublishOnExceptionPush_keepsLock(t) ==
    /\ pc[t] = "oe_push"
    /\ \E event \in arg[t].event :
        viz' = [viz EXCEPT !.toasts_ =
                   LimitToastCount(Append(@, MakeToast(event, viz.toast_lifetime_)),
                                   viz.max_toasts_)]
    /\ arg' = [arg EXCEPT ![t].i = @ + 1,
                          ![t].got = Append(@, observers_[arg[t].i])]
    /\ Goto(t, "pub_iter")
    /\ UNCHANGED <<observers_, throw_on_critical_, nextId, registered, batch,
                   lastCritical, last, mutex_, observer_mutex_, busy, raced, delivered,
                   instance_>>

(* push_back, the eviction loop, the unlock of mutex_ at return, and the   *)
(* return into the loop of handle_exception.                               *)
PublishOnExceptionPush(t) ==
    /\ pc[t] = "oe_push"
    /\ \E event \in arg[t].event :
        viz' = [viz EXCEPT !.toasts_ =
                   LimitToastCount(Append(@, MakeToast(event, viz.toast_lifetime_)),
                                   viz.max_toasts_)]
    /\ mutex_' = "free"
    /\ arg' = [arg EXCEPT ![t].i = @ + 1,
                          ![t].got = Append(@, observers_[arg[t].i])]
    /\ Goto(t, "pub_iter")
    /\ UNCHANGED <<observers_, throw_on_critical_, nextId, registered, batch,
                   lastCritical, last, observer_mutex_, busy, raced, delivered, instance_>>

(* clear() called by the host on a worker thread.                          *)
ClearCall(t) ==
    /\ t \in Workers /\ pc[t] = "idle"
    /\ Goto(t, "clr_lock")
    /\ UNCHANGED <<observers_, throw_on_critical_, viz, nextId, registered, batch,
                   lastCritical, last, mutex_, observer_mutex_, arg, busy, raced,
                   delivered, instance_>>

ClearAcquire(t) ==
    /\ pc[t] = "clr_lock"
    /\ lock_guard(mutex_)
    /\ mutex_' = t
    /\ Goto(t, "clr_toasts")
    /\ UNCHANGED <<observers_, throw_on_critical_, viz, nextId, registered, batch,
                   lastCritical, last, observer_mutex_, arg, busy, raced, delivered,
                   instance_>>

(* render(dt) called by the UI thread: render_toasts begins.               *)
RenderCall(t) ==
    /\ t = "render" /\ pc[t] = "idle"
    /\ Goto(t, "rt_lock")
    /\ UNCHANGED <<observers_, throw_on_critical_, viz, nextId, registered, batch,
                   lastCritical, last, mutex_, observer_mutex_, arg, busy, raced,
                   delivered, instance_>>

RenderAcquire(t) ==
    /\ pc[t] = "rt_lock"
    /\ lock_guard(mutex_)
    /\ mutex_' = t
    /\ Goto(t, "rt_toasts")
    /\ UNCHANGED <<observers_, throw_on_critical_, viz, nextId, registered, batch,
                   lastCritical, last, observer_mutex_, arg, busy, raced, delivered,
                   instance_>>

(* The lock acquisitions of thread t, and its steps that wait for nothing. *)
AcquireStep(t) ==
    \/ PublishAcquire(t)
    \/ OnExceptionLock(t)
    \/ ClearAcquire(t)
    \/ RenderAcquire(t)

RunningStep(t) ==
    \/ PublishNotify(t)
    \/ PublishOnExceptionEnter(t)
    \/ PublishOnExceptionPush(t)
    \/ PublishUnlock(t)
    \/ PublishReturn(t)
    \/ ClearToasts(t)
    \/ ClearModalBegin(t)
    \/ ClearModalEnd(t)
    \/ RenderToastsIn(t, LockDts)
    \/ RenderDraw(t)
    \/ RenderModalBegin(t)
    \/ RenderModalEnd(t)

(* Worker threads that publish and clear while the UI thread renders.      *)
NextLocks ==
    \E t \in Threads :
        \/ PublishCall(t)
        \/ ClearCall(t)
        \/ RenderCall(t)
        \/ AcquireStep(t)
        \/ RunningStep(t)

(* Fair scheduling: a thread that can run does run, and a thread waiting   *)
(* for a mutex that is free again and again gets it.                       *)
FairLocks == \A t \in Threads : WF_vars(RunningStep(t)) /\ SF_vars(AcquireStep(t))

SpecLocks == Init /\ [][NextLocks]_vars /\ FairLocks

(* Variant of the initialisation of a function-local static: no guard, a   *)
(* caller that finds the object not yet complete constructs it.            *)
StaticInit_unguarded(state) ==
    IF state = "ready" THEN "use" ELSE "construct"

(* What a caller of get() does on reaching `static ExceptionHandler        *)
(* instance;`: the first one constructs the object, one that arrives       *)
(* during the construction waits for it, later ones use the object.        *)
StaticInit(state) ==
    IF state = "uninit" THEN "construct"
    ELSE IF state = "constructing" THEN "wait"
    ELSE "use"

(* Thread t calls ExceptionHandler::get().                                 *)
GetEnter(t) ==
    /\ pc[t] = "idle"
    /\ LET k == StaticInit(instance_.state) IN
       CASE k = "construct" ->
              /\ instance_' = [instance_ EXCEPT
                                 !.state = "constructing",
                                 !.contended = @ \/ instance_.state = "constructing"]
              /\ Goto(t, "get_construct")
         [] k = "wait" ->
              /\ instance_' = [instance_ EXCEPT !.contended = TRUE]
              /\ Goto(t, "get_wait")
         [] OTHER ->
              /\ instance_' = [instance_ EXCEPT !.refs[t] = instance_.built]
              /\ UNCHANGED pc
    /\ UNCHANGED <<observers_, throw_on_critical_, viz, nextId, registered, batch,
                   lastCritical, last, mutex_, observer_mutex_, arg, busy, raced,
                   delivered>>

(* The constructor ExceptionHandler() = default has run; get() returns     *)
(* the object.                                                             *)
GetConstruct(t) ==
    /\ pc[t] = "get_construct"
    /\ instance_' = [instance_ EXCEPT !.state = "ready",
                                      !.built = @ + 1,
                                      !.refs[t] = instance_.built + 1]
    /\ Goto(t, "idle")
    /\ UNCHANGED <<observers_, throw_on_critical_, viz, nextId, registered, batch,
                   lastCritical, last, mutex_, observer_mutex_, arg, busy, raced,
                   delivered>>

(* A caller that waited for the construction returns the object.           *)
GetWait(t) ==
    /\ pc[t] = "get_wait"
    /\ instance_.state = "ready"
    /\ instance_' = [instance_ EXCEPT !.refs[t] = instance_.built]
    /\ Goto(t, "idle")
    /\ UNCHANGED <<observers_, throw_on_critical_, viz, nextId, registered, batch,
                   lastCritical, last, mutex_, observer_mutex_, arg, busy, raced,
                   delivered>>

(* The program from before the first get(): nothing is registered, and a   *)
(* thread registers, clears or publishes through the reference its own     *)
(* get() returned.                                                         *)
InitSingleton ==
    /\ observers_ = <<>>
    /\ throw_on_critical_ = FALSE
    /\ viz = [toasts_ |-> <<>>, modal_error_ |-> {}, popup_open |-> FALSE,
              enabled_ |-> TRUE, max_toasts_ |-> DefaultMaxToasts,
              toast_lifetime_ |-> DefaultToastLifetime,
              error_count_ |-> 0, warning_count_ |-> 0, info_count_ |-> 0,
              show_statistics_ |-> FALSE, position_corner_ |-> 0, alive |-> TRUE]
    /\ nextId = 0
    /\ registered = <<>>
    /\ batch = FreshBatch
    /\ lastCritical = 0
    /\ last = NoStep
    /\ mutex_ = "free"
    /\ observer_mutex_ = "free"
    /\ pc = [t \in Threads |-> "idle"]
    /\ arg = [t \in Threads |-> NoArg]
    /\ busy = [t \in Threads |-> "none"]
    /\ raced = [t \in Threads |-> FALSE]
    /\ delivered = [s \in Severities |-> 0]
    /\ instance_ = NoInstance

NextSingleton ==
    \E t \in Threads :
        \/ GetEnter(t)
        \/ GetConstruct(t)
        \/ GetWait(t)
        \/ instance_.refs[t] # 0 /\ PublishLock(t)
        \/ PublishInvoke(t)
        \/ PublishUnlock(t)
        \/ PublishReturn(t)
        \/ instance_.refs[t] # 0 /\ AddObserverLock(t)
        \/ AddObserverPush(t)

SpecSingleton == InitSingleton /\ [][NextSingleton]_vars

(*************************** properties ************************************)

Min(a, b) == IF a < b THEN a ELSE b
LastN(q, n) == SubSeq(q, Len(q) - n + 1, Len(q))
QueueLen == Len(viz.toasts_)
Enqueued == last.delivery = "toast"          \* the latest step ran on_exception, toast path
GotCritical == last.delivery = "critical"    \* the latest step ran on_exception, modal path
WrapFailed == last.op = "wrap" /\ last.input # "ok"
Published == last.ev # {}
TheEvent == CHOOSE e \in last.ev : TRUE

C2_QueueIsMostRecentK ==
    batch.valid =>
        ToastIds(viz.toasts_) = LastN(batch.ids, Min(Len(batch.ids), viz.max_toasts_))

(* C2 witness: K = 2 and events 1, 2, 3 leave <<2, 3>>.                    *)
C2_Witness ==
    /\ batch.valid
    /\ batch.ids = <<1, 2, 3>>
    /\ viz.max_toasts_ = 2
    /\ ToastIds(viz.toasts_) = <<2, 3>>

(* C3: with throw_on_critical_ off, a call of the adapter whose callable   *)
(* throws anything returns normally with the default value.                *)
C3_WrapAbsorbsFailure ==
    (WrapFailed /\ ~throw_on_critical_) => last.outcome = "returned_default"

(* C3 witness: an object that is no std::exception was thrown, classified  *)
(* Critical, and the adapter returned.                                     *)
C3_Witness ==
    /\ WrapFailed
    /\ last.input = "int"
    /\ ~throw_on_critical_
    /\ Published /\ TheEvent.severity = "Critical"
    /\ last.outcome = "returned_default"

(* The classification the specification documents, per thrown type.        *)
Documented(thrown) ==
    CASE thrown = "filesystem_error" -> <<"Error", "filesystem_error">>
      [] thrown = "system_error"     -> <<"Error", "system_error">>
      [] thrown \in {"runtime_error", "range_error"} -> <<"Error", "runtime_error">>
      [] thrown \in {"logic_error", "bad_alloc", "exception"} -> <<"Error", "exception">>
      [] OTHER                       -> <<"Critical", "unknown">>

(* C4: wrap classifies first-match-wins in the order filesystem, system,   *)
(* runtime, std::exception, anything else.                                 *)
C4_ClassificationOrder ==
    WrapFailed =>
        /\ Published
        /\ <<TheEvent.severity, TheEvent.type_name>> = Documented(last.input)

(* C4 witness: a filesystem_error, which is also a system_error and a      *)
(* runtime_error, was published as filesystem_error.                       *)
C4_Witness ==
    /\ WrapFailed
    /\ last.input = "filesystem_error"
    /\ Published /\ TheEvent.type_name = "filesystem_error"

Classified == last.op \in {"wrap", "handle_expected", "report"} /\ last.input # "ok"
InvokedObservers == [i \in 1..Len(last.invoked) |-> last.invoked[i].obs]

(* C5: every classification builds one event and hands that event to every *)
(* observer registered at that moment, once each, before the entry point   *)
(* returns: the visualizer's state already shows the event.                *)
C5_OneEventToEveryObserver ==
    /\ Classified =>
        /\ Cardinality(last.ev) = 1
        /\ TheEvent.id = nextId
        /\ Len(last.invoked) = Len(observers_)
        /\ \A i \in 1..Len(observers_) :
              last.invoked[i] = [obs |-> observers_[i], ev |-> TheEvent.id]
        /\ Enqueued => (QueueLen > 0 /\ viz.toasts_[QueueLen].id = TheEvent.id)
        /\ GotCritical => viz.modal_error_ = last.ev
    /\ ~Classified => (last.ev = {} /\ last.invoked = <<>>)

(* C5 witness: a failed handle_expected reached two observers, and the     *)
(* visualizer queued it.                                                   *)
C5_Witness ==
    /\ last.op = "handle_expected" /\ Classified
    /\ Len(last.invoked) = 2
    /\ Enqueued
    /\ viz.toasts_[QueueLen].id = nextId

C7_CriticalReplaces ==
    /\ Cardinality(viz.modal_error_) <= 1
    /\ \A e \in viz.modal_error_ : e.id = lastCritical /\ e.severity = "Critical"
    /\ GotCritical => (viz.modal_error_ = last.ev /\ TheEvent.id \notin IdSet(viz.toasts_))

(* C7 witness: a second Critical event arrived while one was pending.      *)
C7_Witness ==
    /\ GotCritical
    /\ last.pending_before
    /\ viz.modal_error_ = last.ev
    /\ TheEvent.id = 2

(* C8: a Critical event leaves the queue unchanged, a non-critical event   *)
(* leaves the modal slot unchanged, and no queued notification is Critical *)
C8_ExclusivePaths ==
    [][ /\ (nextId' = nextId + 1 /\ last'.delivery = "critical") =>
               viz'.toasts_ = viz.toasts_
        /\ (nextId' = nextId + 1 /\ last'.delivery = "toast") =>
               viz'.modal_error_ = viz.modal_error_
        /\ \A i \in 1..Len(viz'.toasts_) : viz'.toasts_[i].severity # "Critical" ]_vars

(* C8 witness: a Critical event arrived over a non-empty queue.            *)
C8_Witness ==
    /\ GotCritical
    /\ QueueLen = 2
    /\ viz.modal_error_ = last.ev

(* C9, as claimed: a queued notification has seen less render time than   *)
(* its initial lifetime, that is, it is gone by the render call at which   *)
(* the cumulative dt since its enqueue reaches the lifetime.               *)
C9_GoneWhenCumulativeDtReachesLifetime ==
    \A i \in 1..QueueLen : viz.toasts_[i].elapsed < viz.toasts_[i].initial_lifetime

(* C9, amended: a queued notification has a positive remaining lifetime;   *)
(* a render call removes exactly the notifications whose remaining         *)
(* lifetime, after the float subtraction of dt, is <= 0; and a             *)
(* notification that enters the queue is a new one, never a removed one.   *)
C9_GoneWhenRemainingLifetimeRunsOut ==
    [][ /\ \A i \in 1..Len(viz'.toasts_) :
              /\ viz'.toasts_[i].lifetime > 0
              /\ viz'.toasts_[i].id \in IdSet(viz.toasts_) \cup {nextId + 1}
        /\ nextId' \in {nextId, nextId + 1}
        /\ (last'.op = "render") =>
              \E dt \in FrameDts : \A i \in 1..Len(viz.toasts_) :
                  LET left == FloatSub(viz.toasts_[i].lifetime, dt) IN
                  IF left <= 0 THEN viz.toasts_[i].id \notin IdSet(viz'.toasts_)
                  ELSE \E j \in 1..Len(viz'.toasts_) :
                          /\ viz'.toasts_[j].id = viz.toasts_[i].id
                          /\ viz'.toasts_[j].lifetime = left ]_vars

(* C9 witness: a render call removed one notification whose lifetime ran   *)
(* out and kept a younger one.                                             *)
C9_Witness ==
    /\ last.op = "render"
    /\ last.expired = {1}
    /\ ToastIds(viz.toasts_) = <<2>>
    /\ viz.toasts_[1].elapsed > 0

(* C10, as claimed: a pending modal slot is emptied only by a dismissal    *)
(* during rendering.                                                       *)
C10_OnlyDismissalEmptiesModal ==
    [][ (viz.modal_error_ # {} /\ viz'.modal_error_ = {}) => last'.op = "render" ]_vars

(* C10, amended: a pending modal slot is emptied only by a dismiss button  *)
(* of the popup during render, which closes the popup, or by clear().      *)
C10_OnlyDismissalOrClearEmptiesModal ==
    [][ (viz.modal_error_ # {} /\ viz'.modal_error_ = {}) =>
            \/ last'.op = "clear"
            \/ /\ last'.op = "render"
               /\ last'.click \in {"view_logs", "continue"}
               /\ viz.popup_open /\ ~viz'.popup_open ]_vars

(* C10 witness: Continue was pressed while a Critical event was pending.   *)
C10_Witness ==
    /\ last.op = "render"
    /\ last.click = "continue"
    /\ last.pending_before
    /\ viz.modal_error_ = {}
    /\ QueueLen = 1

(* C12, as claimed: once a Critical event has been delivered and clear()   *)
(* has been called, the modal slot is empty, and a render call that finds  *)
(* the slot empty draws no critical-error popup.                           *)
C12_NoModalDrawnAfterClear ==
    /\ (last.op = "clear") => viz.modal_error_ = {}
    /\ (last.op = "render" /\ lastCritical > 0 /\ ~last.pending_before) => ~last.modal_drawn

(* C14, as claimed: a Critical event sets the modal slot to that event and *)
(* changes none of the three counters.                                     *)
C14_CriticalLeavesCounters ==
    [][ (nextId' = nextId + 1 /\ last'.delivery = "critical") =>
            /\ viz'.modal_error_ = last'.ev
            /\ viz'.error_count_ = viz.error_count_
            /\ viz'.warning_count_ = viz.warning_count_
            /\ viz'.info_count_ = viz.info_count_ ]_vars

(* C14, amended: a Critical event sets the modal slot to that event, adds  *)
(* one to error_count and leaves warning_count and info_count unchanged.   *)
C14_CriticalCountsAsError ==
    [][ (nextId' = nextId + 1 /\ last'.delivery = "critical") =>
            /\ viz'.modal_error_ = last'.ev
            /\ viz'.error_count_ = viz.error_count_ + 1
            /\ viz'.warning_count_ = viz.warning_count_
            /\ viz'.info_count_ = viz.info_count_ ]_vars

(* C14 witness: a Critical event through wrap arrived after an Error       *)
(* event; both were counted as errors.                                     *)
C14_Witness ==
    /\ GotCritical
    /\ last.op = "wrap"
    /\ viz.modal_error_ = last.ev
    /\ viz.error_count_ = 2
    /\ QueueLen = 1

(* C16: a call of the adapter whose callable returns normally returns the  *)
(* callable's result, publishes no event, invokes no observer and leaves   *)
(* the visualizer's queue, modal slot and counters as they were.           *)
C16_SuccessfulWrapIsTransparent ==
    [][ (last'.op = "wrap" /\ last'.input = "ok") =>
            /\ last'.outcome = "returned_result"
            /\ last'.ev = {} /\ last'.invoked = <<>>
            /\ nextId' = nextId
            /\ viz' = viz ]_vars

(* C16 witness: the callable returned normally with two observers          *)
(* registered and an earlier Warn notification in the queue.               *)
C16_Witness ==
    /\ last.op = "wrap" /\ last.input = "ok"
    /\ last.outcome = "returned_result"
    /\ Len(observers_) = 2
    /\ QueueLen = 1 /\ viz.warning_count_ = 1

(* C17: handle_expected publishes nothing for a success; for a failure it  *)
(* publishes exactly one Warn event whose message is the payload when the  *)
(* payload is textual and "Operation failed" otherwise, and returns.       *)
C17_HandleExpectedReportsFailure ==
    (last.op = "handle_expected") =>
        /\ last.outcome = "returned"
        /\ (last.input = "ok") => (last.ev = {} /\ last.invoked = <<>>)
        /\ (last.input # "ok") =>
              /\ Cardinality(last.ev) = 1
              /\ TheEvent.id = nextId
              /\ TheEvent.severity = "Warn"
              /\ TheEvent.type_name = "manual_report"
              /\ (last.input = "textual") => TheEvent.message \in Payloads
              /\ (last.input = "opaque") => TheEvent.message = "Operation failed"

(* C17 witness: a failure whose payload is not textual was published with  *)
(* the placeholder message and queued by the visualizer.                   *)
C17_Witness ==
    /\ last.op = "handle_expected" /\ last.input = "opaque"
    /\ Published /\ TheEvent.message = "Operation failed"
    /\ Enqueued /\ viz.warning_count_ = 1

AlmostLifetime == FloatSub(DefaultToastLifetime, TenthF)   \* toast_lifetime - 0.1
Fresh(t) == t.elapsed = 0 /\ t.lifetime = DefaultToastLifetime

(* C19: a filesystem_error thrown inside a wrap adapter makes exactly one  *)
(* event of type "filesystem_error" and severity Error, adds one to        *)
(* error_count and one notification to the queue; a render with            *)
(* dt = toast_lifetime - 0.1 keeps a fresh notification and draws it with  *)
(* alpha < 1; a following render with dt = 0.2 removes it.                 *)
C19_FilesystemFailureScenario ==
    [][ /\ (last'.op = "wrap" /\ last'.input = "filesystem_error" /\ nextId' = nextId + 1) =>
              /\ Cardinality(last'.ev) = 1
              /\ \A e \in last'.ev : e.type_name = "filesystem_error" /\ e.severity = "Error"
              /\ viz'.error_count_ = viz.error_count_ + 1
              /\ Len(viz'.toasts_) = Len(viz.toasts_) + 1
              /\ viz'.toasts_[Len(viz'.toasts_)].id = nextId'
        /\ (last'.op = "render" /\ last'.dt = AlmostLifetime) =>
              \A i \in 1..Len(viz.toasts_) : Fresh(viz.toasts_[i]) =>
                  \E j \in 1..Len(viz'.toasts_) :
                      /\ viz'.toasts_[j].id = viz.toasts_[i].id
                      /\ viz'.toasts_[j].lifetime > 0
                      /\ fade_alpha(viz'.toasts_[j]) < Second
        /\ (last'.op = "render" /\ last'.dt = FifthF) =>
              \A i \in 1..Len(viz.toasts_) : viz.toasts_[i].elapsed = AlmostLifetime =>
                  viz.toasts_[i].id \notin IdSet(viz'.toasts_) ]_vars

(* C19 witness: one filesystem_error was caught, counted and queued; it    *)
(* survived the frame of toast_lifetime - 0.1 and the frame of 0.2 that    *)
(* followed removed it, leaving the queue empty.                           *)
C19_Witness ==
    /\ nextId = 1 /\ viz.error_count_ = 1
    /\ last.op = "render" /\ last.dt = FifthF
    /\ last.gone = {[id |-> 1, elapsed |-> AlmostLifetime + FifthF]}
    /\ viz.toasts_ = <<>>

InsideClear(t) == pc[t] \in {"clr_modal", "clr_modal_end"}   \* queue emptied, slot not yet
UsesQueue(t) == pc[t] \in {"oe_push", "rt_toasts", "rt_draw", "clr_toasts"}
UsesModal(t) == busy[t] # "none"

(* C11, as claimed: while clear() has emptied the queue and not yet the    *)
(* modal slot, no other thread is reading or writing the queue or the      *)
(* slot, so that every on_exception and render is wholly before or wholly  *)
(* after the clear.                                                        *)
C11_ClearIsAtomic ==
    \A t \in Threads : InsideClear(t) =>
        \A u \in Threads \ {t} : ~UsesModal(u) /\ ~UsesQueue(u)

(* C13, as claimed: a thread that reads or writes the queue or the modal   *)
(* slot holds mutex_, and no two threads access them at the same time.     *)
C13_AccessesHoldMutex ==
    /\ \A t \in Threads : (UsesQueue(t) \/ UsesModal(t)) => mutex_ = t
    /\ Cardinality({t \in Threads : UsesQueue(t) \/ UsesModal(t)}) <= 1

(* C15: each counter equals the number of events of its bucket that have   *)
(* entered on_exception, on whatever threads and in whatever interleaving: *)
(* every event adds one to exactly one counter and no increment is lost.   *)
C15_CountersMatchDeliveries ==
    /\ viz.error_count_ = delivered["Error"] + delivered["Critical"]
    /\ viz.warning_count_ = delivered["Warn"]
    /\ viz.info_count_ = delivered["Info"] + delivered["Debug"] + delivered["Trace"]
    /\ viz.error_count_ + viz.warning_count_ + viz.info_count_ = nextId

(* C15 witness: two Warn events are inside on_exception at the same time,  *)
(* on two threads, and both are counted.                                   *)
C15_Witness ==
    /\ pc["w1"] = "oe_lock" /\ pc["w2"] = "oe_push"
    /\ delivered["Warn"] = 2
    /\ viz.warning_count_ = 2 /\ viz.error_count_ = 0 /\ viz.info_count_ = 0

InObserverSection(t) == pc[t] \in {"pub_iter", "add_push", "rm_clear"}

(* C20: a thread mutating or iterating observers_ holds observer_mutex_    *)
(* and is the only one doing so; during a publish the list stays what it   *)
(* was when the lock was taken, and the observers invoked are exactly that *)
(* list, in order.                                                         *)
C20_ObserverListExclusive ==
    /\ \A t \in Threads : InObserverSection(t) => observer_mutex_ = t
    /\ Cardinality({t \in Threads : InObserverSection(t)}) <= 1
    /\ \A t \in Threads :
          /\ (pc[t] = "pub_iter") =>
                /\ observers_ = arg[t].snap
                /\ arg[t].got = SubSeq(arg[t].snap, 1, arg[t].i - 1)
          /\ (pc[t] = "pub_done") => arg[t].got = arg[t].snap

(* C20 witness: a publish delivered to both observers of the list while    *)
(* one thread waits to clear the list, which it has since done, and        *)
(* another is about to register.                                           *)
C20_Witness ==
    /\ pc["w1"] = "pub_done"
    /\ arg["w1"].got = <<"visualizer", "O1">>
    /\ observers_ = <<>>
    /\ pc["w2"] = "idle" /\ pc["render"] = "add_push"

(* C21: an event published after remove_observers() invokes only callbacks *)
(* registered since then; the visualizer, whose callback was removed,      *)
(* keeps its queue, modal slot and counters through every later event.     *)
C21_RemovedObserversStaySilent ==
    [][ /\ (last'.op = "remove_observers") => observers_' = <<>>
        /\ (nextId' = nextId + 1) =>
              /\ \A i \in 1..Len(last'.invoked) : last'.invoked[i].obs \in Range(registered)
              /\ ("visualizer" \notin Range(registered)) => viz' = viz ]_vars

(* C21 witness: the visualizer took one event, the observers were removed, *)
(* O1 was registered, and the next event reached O1 only.                  *)
C21_Witness ==
    /\ Published /\ nextId = 2
    /\ registered = <<"O1">>
    /\ InvokedObservers = <<"O1">>
    /\ last.delivery = "unregistered"
    /\ viz.error_count_ + viz.warning_count_ + viz.info_count_ = 1

(* The control points at which a thread is about to issue ImGui calls.     *)
UICallSites == {"oe_popup", "rt_draw", "rm_popup", "rm_end"}
RenderSites == {"rt_toasts", "rt_draw", "rm_popup", "rm_end"}

(* C22, as claimed: no thread issues a UI call from inside on_exception,   *)
(* opening the blocking modal included; UI calls are issued by the render  *)
(* thread from inside render only.                                         *)
C22_OnExceptionMakesNoUICall ==
    \A t \in Threads :
        pc[t] \in UICallSites => t = "render" /\ pc[t] \in RenderSites

(* C23, as claimed: a thread inside on_exception that waits for mutex_     *)
(* never waits while render draws the toasts: render does not hold mutex_  *)
(* during its ImGui calls.                                                 *)
C23_RenderDrawsWithoutMutex ==
    \A t \in Threads :
        pc[t] = "rt_draw" =>
            /\ mutex_ # t
            /\ \A u \in Threads \ {t} : pc[u] # "oe_lock"

EntryPoints == {"wrap", "handle_expected", "report"}
OverlayOps == {"render", "clear", "set_enabled", "set_max_toasts", "set_toast_lifetime",
               "set_position_corner"}

(* C24: no operation of the visualizer publishes: render, clear and the    *)
(* setters leave the count of published events alone, and a step that      *)
(* publishes is a call of wrap, handle_expected or report that publishes    *)
(* exactly one event, whose delivery to on_exception publishes no other.   *)
C24_OverlayNeverPublishes ==
    [][ /\ (last'.op \in OverlayOps) =>
              nextId' = nextId /\ last'.ev = {} /\ last'.invoked = <<>>
        /\ (nextId' # nextId) =>
              /\ nextId' = nextId + 1
              /\ last'.op \in EntryPoints
              /\ Cardinality(last'.ev) = 1
              /\ \A e \in last'.ev : e.id = nextId' ]_vars

(* C24 witness: two events were delivered to on_exception, one of them     *)
(* Critical, and a render then drew the modal; two events exist, no more.  *)
C24_Witness ==
    /\ last.op = "render" /\ last.modal_drawn
    /\ nextId = 2
    /\ Len(viz.toasts_) = 1

(* C25: get() constructs one ExceptionHandler in the whole execution and   *)
(* every call returns that object, calls that overlap the first one        *)
(* included; an observer registered through one thread's reference is      *)
(* therefore in the list every other thread's later publish iterates: a    *)
(* publish invokes the observers registered, by any thread, before it      *)
(* took the lock.                                                          *)
C25_OneHandlerInstance ==
    /\ instance_.built <= 1
    /\ \A t \in Threads : instance_.refs[t] \in {0, 1}
    /\ \A t \in Threads : instance_.refs[t] # 0 => instance_.state = "ready"
    /\ \A t \in Threads : (pc[t] = "pub_done") =>
          /\ arg[t].got = arg[t].snap
          /\ Len(arg[t].got) <= Len(registered)
          /\ arg[t].got = SubSeq(registered, 1, Len(arg[t].got))

(* C25 witness: the first calls of get() overlapped, every thread now      *)
(* holds the one object, and w2's publish invoked the observer another     *)
(* thread registered.                                                      *)
C25_Witness ==
    /\ instance_.contended
    /\ \A t \in Threads : instance_.refs[t] = 1
    /\ pc["w2"] = "pub_done" /\ arg["w2"].got = <<"O1">>

(* C26: the event published by wrap, handle_expected or report carries    *)
(* as its location the source_location of the place that called that       *)
(* entry point, not a place inside the handler.                            *)
C26_EventCarriesCallSite ==
    (Published /\ last.op \in EntryPoints) =>
        /\ last.site \in CallSites
        /\ \A e \in last.ev : e.location = last.site

(* C26 witness: handle_expected, called at the second call site with a     *)
(* failed result after an event from elsewhere, published an event         *)
(* located at that second site.                                            *)
C26_Witness ==
    /\ Published /\ last.op = "handle_expected" /\ nextId = 2
    /\ last.site = "trainer.cpp:200"
    /\ TheEvent.location = "trainer.cpp:200"

(* The two fade windows of a notification as render_toasts tests them:     *)
(* the first 0.3 s of its life and the last 0.5 s.                         *)
InFadeIn(t) == t.lifetime > FloatSub(t.initial_lifetime, ThreeTenthsF)
InFadeOut(t) == t.lifetime < HalfF

(* C27, as claimed: after a render, every surviving notification has an    *)
(* alpha in [0, 1] that is (initial_lifetime - lifetime) / 0.3 while the    *)
(* notification is in its fade-in window, lifetime / 0.5 while it is in     *)
(* its fade-out window and 1 in between, whatever the configured lifetime. *)
C27_AlphaFadesInAndOut ==
    last.op = "render" =>
        \A i \in 1..Len(viz.toasts_) :
            LET t == viz.toasts_[i]
                a == fade_alpha(t)
            IN /\ 0 <= a /\ a <= Second
               /\ InFadeIn(t) =>
                     a = FloatDiv(FloatSub(t.initial_lifetime, t.lifetime), ThreeTenthsF)
               /\ InFadeOut(t) => a = FloatDiv(t.lifetime, HalfF)
               /\ (~InFadeIn(t) /\ ~InFadeOut(t)) => a = Second

LeftX == TOAST_MARGIN
RightX == ViewportW - TOAST_WIDTH - TOAST_MARGIN
TopY == TOAST_MARGIN
BottomY == ViewportH - TOAST_MARGIN

(* The windows of `pos` are at x, the first at y, each next one lower on   *)
(* the screen (larger y) when down and higher when not, by the height of   *)
(* the window before it and the spacing.                                   *)
Stacked(pos, x, y, down, h) ==
    /\ \A i \in 1..Len(pos) : pos[i].x = x
    /\ Len(pos) > 0 => pos[1].y = y
    /\ \A i \in 1..(Len(pos) - 1) :
          IF down THEN pos[i + 1].y = pos[i].y + h + TOAST_SPACING
                  ELSE pos[i + 1].y = pos[i].y - h - TOAST_SPACING

(* C28: render places the surviving notifications from the anchor corner:  *)
(* downward from the top for corners 0 (right) and 1 (left), upward from   *)
(* the bottom for corners 2 (right) and 3 (left), and as corner 0 for any  *)
(* other value.                                                            *)
C28_StackingFollowsCorner ==
    (last.op = "render" /\ last.layout # <<>>) =>
        \A h \in WindowHeights :
            LET pos == last.layout[h]
                c == viz.position_corner_
            IN /\ Len(pos) = Len(viz.toasts_)
               /\ CASE c = 1 -> Stacked(pos, LeftX, TopY, TRUE, h)
                    [] c = 2 -> Stacked(pos, RightX, BottomY, FALSE, h)
                    [] c = 3 -> Stacked(pos, LeftX, BottomY, FALSE, h)
                    [] OTHER -> Stacked(pos, RightX, TopY, TRUE, h)

(* C28 witness: with the bottom-left corner chosen, a render drew two      *)
(* notifications, the second above the first.                              *)
C28_Witness ==
    /\ last.op = "render" /\ viz.position_corner_ = 3
    /\ Len(viz.toasts_) = 2
    /\ last.layout[48] = <<[x |-> 20, y |-> 700], [x |-> 20, y |-> 642]>>

(* C29: an event published while the visualizer is disabled leaves the     *)
(* queue, the modal slot and the three counters as they were; switching    *)
(* the visualizer on or off changes nothing but the switch, so a dropped   *)
(* event is not replayed; and a render while disabled still ages every     *)
(* queued notification and erases those whose lifetime is used up.         *)
C29_DisabledDropsEvents ==
    [][ /\ (nextId' = nextId + 1 /\ ~viz.enabled_) =>
              /\ viz' = viz
              /\ last'.delivery \in {"disabled", "unregistered"}
        /\ (last'.op = "set_enabled") =>
              viz' = [viz EXCEPT !.enabled_ = viz'.enabled_]
        /\ (last'.op = "render" /\ ~viz.enabled_) =>
              /\ ~viz'.enabled_
              /\ \A j \in 1..Len(viz'.toasts_) :
                    \E i \in 1..Len(viz.toasts_) :
                        /\ viz.toasts_[i].id = viz'.toasts_[j].id
                        /\ viz'.toasts_[j].lifetime < viz.toasts_[i].lifetime
                        /\ viz'.toasts_[j].lifetime > 0
              /\ \A i \in 1..Len(viz.toasts_) :
                    viz.toasts_[i].lifetime <= Second =>
                        viz.toasts_[i].id \notin IdSet(viz'.toasts_) ]_vars

(* C29 witness: a notification was queued, the visualizer was disabled, a  *)
(* second event was dropped (one event counted, two published), and a      *)
(* render while disabled has just erased the notification.                 *)
C29_Witness ==
    /\ ~viz.enabled_ /\ nextId = 2
    /\ viz.error_count_ + viz.warning_count_ + viz.info_count_ = 1
    /\ viz.modal_error_ = {}
    /\ last.op = "render" /\ last.expired = {1}
    /\ viz.toasts_ = <<>>

(* C30, as claimed: the handler invokes the visualizer's callback only     *)
(* while the visualizer is alive.                                          *)
C30_NoDeliveryToDestroyedOverlay ==
    \A i \in 1..Len(last.invoked) :
        last.invoked[i].obs = "visualizer" => viz.alive

(* The toast of queue q whose id is id.                                    *)
ToastOf(q, id) == q[CHOOSE i \in 1..Len(q) : q[i].id = id]

(* C33: a render erases exactly the notifications whose lifetime, less the *)
(* frame's delta-time, is used up, wherever they sit in the queue; the     *)
(* others stay in their order; none is added; and the modal slot changes   *)
(* only by a dismissal button, which empties it.                           *)
C33_RenderErasesExpiredKeepsOrder ==
    [][ (last'.op = "render") =>
          /\ \A i \in 1..Len(viz.toasts_) :
                (FloatSub(viz.toasts_[i].lifetime, last'.dt) <= 0)
                    <=> viz.toasts_[i].id \notin IdSet(viz'.toasts_)
          /\ ToastIds(viz'.toasts_) =
                SelectSeq(ToastIds(viz.toasts_), LAMBDA id : id \in IdSet(viz'.toasts_))
          /\ (viz'.modal_error_ # viz.modal_error_) =>
                /\ last'.click \in {"view_logs", "continue"}
                /\ viz'.modal_error_ = {} ]_vars

(* C33 witness: the render erased the second notification of two, the      *)
(* first is still queued.                                                  *)
C33_Witness ==
    /\ last.op = "render" /\ last.expired = {2}
    /\ ToastIds(viz.toasts_) = <<1>>

(* C34: a notification that stays queued keeps its message, location,      *)
(* type, severity, color and initial lifetime; its remaining lifetime      *)
(* changes only in a render, by that frame's delta-time; a notification    *)
(* enters with both lifetimes equal to the toast_lifetime of that moment;  *)
(* and set_toast_lifetime leaves the queue as it is.                       *)
C34_ToastFieldsFixed ==
    [][ /\ \A id \in IdSet(viz.toasts_) \cap IdSet(viz'.toasts_) :
              LET old == ToastOf(viz.toasts_, id)
                  new == ToastOf(viz'.toasts_, id)
              IN /\ new.message = old.message /\ new.location = old.location
                 /\ new.type = old.type /\ new.severity = old.severity
                 /\ new.color = old.color
                 /\ new.initial_lifetime = old.initial_lifetime
                 /\ IF last'.op = "render"
                    THEN new.lifetime = FloatSub(old.lifetime, last'.dt)
                    ELSE new.lifetime = old.lifetime
        /\ \A id \in IdSet(viz'.toasts_) \ IdSet(viz.toasts_) :
              LET new == ToastOf(viz'.toasts_, id)
              IN /\ new.lifetime = viz.toast_lifetime_
                 /\ new.initial_lifetime = viz.toast_lifetime_
                 /\ \A e \in last'.ev :
                       /\ new.message = e.message /\ new.location = e.location
                       /\ new.type = e.type_name /\ new.severity = e.severity
        /\ (last'.op = "set_toast_lifetime") => viz'.toasts_ = viz.toasts_ ]_vars

(* C34 witness: the lifetime was lowered to 1 s between two events; the    *)
(* first notification, already aged, keeps its initial 4 s, the second     *)
(* starts with 1 s.                                                        *)
C34_Witness ==
    /\ Len(viz.toasts_) = 2
    /\ viz.toasts_[1].initial_lifetime = DefaultToastLifetime
    /\ viz.toasts_[1].lifetime < DefaultToastLifetime
    /\ viz.toasts_[2].initial_lifetime = Second
    /\ viz.toasts_[2].lifetime = Second

Counted(v) == v.error_count_ + v.warning_count_ + v.info_count_

(* C35: no step lowers error_count, warning_count or info_count, and an    *)
(* event delivered to the enabled visualizer adds one to their sum, also   *)
(* when its notification is evicted at once.                               *)
C35_CountersNeverDecrease ==
    [][ /\ viz'.error_count_ >= viz.error_count_
        /\ viz'.warning_count_ >= viz.warning_count_
        /\ viz'.info_count_ >= viz.info_count_
        /\ (nextId' = nextId + 1 /\ last'.delivery \in {"toast", "critical"}) =>
              Counted(viz') = Counted(viz) + 1
        /\ (last'.op \in OverlayOps) => Counted(viz') = Counted(viz) ]_vars

(* C35 witness: with max_toasts = 0 a second event was counted although    *)
(* its notification was evicted as soon as it was pushed.                  *)
C35_Witness ==
    /\ viz.max_toasts_ = 0 /\ last.delivery = "toast"
    /\ viz.toasts_ = <<>>
    /\ nextId = 2 /\ Counted(viz) = 2

(* C36, as claimed: the modal slot holds an event exactly while the        *)
(* "##CriticalError" popup is open.                                        *)
C36_PopupMatchesModalSlot ==
    (viz.modal_error_ # {}) <=> viz.popup_open

Queued(id) == id \in IdSet(viz.toasts_)

(* C32, as claimed: with render called again and again with a positive     *)
(* delta-time, every notification that is queued eventually is not.        *)
C32_EveryToastLeaves ==
    \A id \in 1..MaxCalls : Queued(id) ~> ~Queued(id)

(* C32, amended: every queued notification eventually leaves the queue     *)
(* provided render is called again and again with a delta-time large       *)
(* enough to lower its float lifetime (here: of 1 s and more); later       *)
(* events and changes of toast_lifetime and max_toasts do not keep it.     *)
C32_EveryToastLeavesUnderEffectiveFrames ==
    \A id \in 1..MaxCalls :
        ([]<><<last'.op = "render" /\ last'.dt >= Second>>_vars)
            => (Queued(id) ~> ~Queued(id))

(* C32 witness: the first notification outlived a change of toast_lifetime *)
(* and the arrival of a second event, and a render has now erased it by    *)
(* expiry, the second still queued.                                        *)
C32_Witness ==
    /\ last.op = "render" /\ last.expired = {1}
    /\ ToastIds(viz.toasts_) = <<2>>
    /\ viz.toast_lifetime_ # DefaultToastLifetime

(* The mutex thread t is waiting for, and the mutexes it holds.            *)
WaitsForObserverLock(t) == pc[t] = "pub_lock"

WaitsForOverlayMutex(t) == pc[t] \in {"oe_lock", "clr_lock", "rt_lock"}

HolderOfAwaited(t) ==
    IF WaitsForObserverLock(t) THEN observer_mutex_
    ELSE IF WaitsForOverlayMutex(t) THEN mutex_
    ELSE "free"

(* Thread t waits for nothing and holds a mutex: std::lock_guard has       *)
(* returned.                                                                *)
Waits(t) == WaitsForObserverLock(t) \/ WaitsForOverlayMutex(t)

Acquired(t) ==
    /\ ~Waits(t)
    /\ (observer_mutex_ = t \/ mutex_ = t)

(* The handler's observer lock is requested only by a thread that holds    *)
(* neither mutex, the overlay's mutex only by a thread that does not hold  *)
(* it, and no thread waits for a mutex whose holder is itself waiting for  *)
(* a mutex the first thread holds.                                         *)
LockOrder ==
    \A t \in Threads :
        /\ WaitsForObserverLock(t) => mutex_ # t /\ observer_mutex_ # t
        /\ WaitsForOverlayMutex(t) => mutex_ # t
        /\ mutex_ = t => ~WaitsForObserverLock(t)
        /\ \A u \in Threads \ {t} :
              ~(HolderOfAwaited(t) = u /\ HolderOfAwaited(u) = t)

====
